---- MODULE Spec2Model ----
(***************************************************************************)
(* A model of src/src/compiler.js: the directive tokenizer, the expression *)
(* evaluator, the conditional-block interpreter (render) and the optional  *)
(* alternate backend (renderTemplate).                                     *)
(*                                                                         *)
(* Strings are sequences of one-character strings.  Indices are 0-based,   *)
(* as in the source; at(s, i) reads s[i].                                  *)
(***************************************************************************)
EXTENDS Integers, Sequences, FiniteSets, TLC

(***************************************************************************)
(* String primitives of the host language used by the source.              *)
(***************************************************************************)
at(s, i) == s[i + 1]

\* String.prototype.slice(start, end) for 0 <= start, end <= length
slice(s, start, end) == IF end > start THEN SubSeq(s, start + 1, end) ELSE <<>>

\* String.prototype.startsWith(prefix, position)
startsWith(s, prefix, position) ==
  /\ position + Len(prefix) <= Len(s)
  /\ \A k \in 1..Len(prefix) : s[position + k] = prefix[k]

\* String.prototype.indexOf(ch, from) for a one-character needle; -1 if none
indexOf(s, ch, from) ==
  IF \E i \in from..(Len(s) - 1) : at(s, i) = ch
    THEN CHOOSE i \in from..(Len(s) - 1) :
           /\ at(s, i) = ch
           /\ \A j \in from..(i - 1) : at(s, j) # ch
    ELSE -1

RECURSIVE join(_)
\* Array.prototype.join('') of a list of strings
join(parts) == IF parts = <<>> THEN <<>> ELSE Head(parts) \o join(Tail(parts))

Digits == {"0", "1", "2", "3", "4", "5", "6", "7", "8", "9"}
Letters ==
  {"a", "b", "c", "d", "e", "f", "g", "h", "i", "j", "k", "l", "m",
   "n", "o", "p", "q", "r", "s", "t", "u", "v", "w", "x", "y", "z",
   "A", "B", "C", "D", "E", "F", "G", "H", "I", "J", "K", "L", "M",
   "N", "O", "P", "Q", "R", "S", "T", "U", "V", "W", "X", "Y", "Z"}
\* the regular-expression classes [A-Za-z_], \w and \s (no line breaks occur)
IdentStart == Letters \cup {"_"}
WordChars == Letters \cup Digits \cup {"_"}
Whitespace == {" "}

(***************************************************************************)
(* readParenthesized (compiler.js 91-105)                                  *)
(***************************************************************************)
RECURSIVE readParenthesizedLoop(_, _, _, _)
readParenthesizedLoop(template, startIndex, i, depth) ==
  IF i >= Len(template)
    THEN [ok |-> FALSE, error |-> "Unterminated directive", index |-> startIndex]
    ELSE IF at(template, i) = "("
      THEN readParenthesizedLoop(template, startIndex, i + 1, depth + 1)
      ELSE IF at(template, i) = ")"
        THEN IF depth - 1 = 0
          THEN [ok |-> TRUE,
                content |-> slice(template, startIndex + 1, i),
                endIndex |-> i + 1]
          ELSE readParenthesizedLoop(template, startIndex, i + 1, depth - 1)
        ELSE readParenthesizedLoop(template, startIndex, i + 1, depth)

\* the end of the template closes what is still open
readParenthesizedLenient(template, startIndex) ==
  IF readParenthesizedLoop(template, startIndex, startIndex, 0).ok
    THEN readParenthesizedLoop(template, startIndex, startIndex, 0)
    ELSE [ok |-> TRUE,
          content |-> slice(template, startIndex + 1, Len(template)),
          endIndex |-> Len(template)]

\* the first ) after the opening parenthesis closes it
readParenthesizedFirst(template, startIndex) ==
  IF indexOf(template, ")", startIndex) = -1
    THEN [ok |-> FALSE, error |-> "Unterminated directive", index |-> startIndex]
    ELSE [ok |-> TRUE,
          content |-> slice(template, startIndex + 1, indexOf(template, ")", startIndex)),
          endIndex |-> indexOf(template, ")", startIndex) + 1]

readParenthesized(template, startIndex) ==
  readParenthesizedLoop(template, startIndex, startIndex, 0)

(***************************************************************************)
(* tokenize (compiler.js 107-164)                                          *)
(***************************************************************************)
\* a text token only for two characters or more
pushTextLong(tokens, template, start, end) ==
  IF end > start + 1
    THEN Append(tokens, [type |-> "text", value |-> slice(template, start, end)])
    ELSE tokens

\* pushText: a text token for template[start, end), omitted when empty
pushText(tokens, template, start, end) ==
  IF end > start
    THEN Append(tokens, [type |-> "text", value |-> slice(template, start, end)])
    ELSE tokens

KwSet == <<"#", "s", "e", "t", "(">>
KwIf == <<"#", "i", "f", "(">>
KwElseif == <<"#", "e", "l", "s", "e", "i", "f", "(">>
KwElse == <<"#", "e", "l", "s", "e">>
KwEnd == <<"#", "e", "n", "d">>

\* the three parenthesized forms: read the body, push the token, move the cursor
directiveStep(template, tokens, hashIndex, keyword, type) ==
  LET read(r) ==
        IF r.ok
          THEN [ok |-> TRUE,
                tokens |-> Append(tokens, [type |-> type, content |-> r.content]),
                cursor |-> r.endIndex]
          ELSE [ok |-> FALSE, error |-> r.error, index |-> r.index]
  IN  read(readParenthesized(template, hashIndex + Len(keyword) - 1))

\* one iteration of the while loop, from the indexOf to the continue/break
tokenizeStep(template, cursor, tokens) ==
  LET directive(before, hashIndex) ==
        IF startsWith(template, KwSet, hashIndex)
          THEN directiveStep(template, before, hashIndex, KwSet, "set")
        ELSE IF startsWith(template, KwIf, hashIndex)
          THEN directiveStep(template, before, hashIndex, KwIf, "if")
        ELSE IF startsWith(template, KwElseif, hashIndex)
          THEN directiveStep(template, before, hashIndex, KwElseif, "elseif")
        ELSE IF startsWith(template, KwElse, hashIndex)
          THEN [ok |-> TRUE,
                tokens |-> Append(before, [type |-> "else"]),
                cursor |-> hashIndex + 5]
        ELSE IF startsWith(template, KwEnd, hashIndex)
          THEN [ok |-> TRUE,
                tokens |-> Append(before, [type |-> "end"]),
                cursor |-> hashIndex + 4]
        ELSE [ok |-> TRUE,
              tokens |-> Append(before, [type |-> "text", value |-> <<"#">>]),
              cursor |-> hashIndex + 1]
      found(hashIndex) ==
        IF hashIndex = -1
          THEN [ok |-> TRUE,
                tokens |-> pushText(tokens, template, cursor, Len(template)),
                cursor |-> Len(template)]
          ELSE directive(pushText(tokens, template, cursor, hashIndex), hashIndex)
  IN  found(indexOf(template, "#", cursor))

RECURSIVE tokenizeLoop(_, _, _)
tokenizeLoop(template, cursor, tokens) ==
  LET continue(step) ==
        IF step.ok THEN tokenizeLoop(template, step.cursor, step.tokens) ELSE step
  IN  IF cursor < Len(template)
        THEN continue(tokenizeStep(template, cursor, tokens))
        ELSE [ok |-> TRUE, tokens |-> tokens, cursor |-> cursor]

tokenize(template) == tokenizeLoop(template, 0, <<>>)

(***************************************************************************)
(* Values of the host language.  A number is an exact rational n/d in      *)
(* lowest terms with d > 0; negative zero is written n = 0, d = -1; the    *)
(* non-finite numbers are Infinity, -Infinity and NaN.                     *)
(***************************************************************************)
Undefined == [t |-> "undefined"]
Null == [t |-> "null"]
NaN == [t |-> "nan"]
Inf(sign) == [t |-> "inf", sign |-> sign]
Str(s) == [t |-> "str", s |-> s]
Bool(b) == [t |-> "bool", b |-> b]
\* a result this model does not compute; no checked behaviour may contain it
Unmodelled == [t |-> "unmodelled"]

Abs(n) == IF n < 0 THEN -n ELSE n
RECURSIVE Gcd(_, _)
Gcd(a, b) == IF b = 0 THEN a ELSE Gcd(b, a % b)

\* the number sign * |n| / |d|, for d # 0; a zero keeps its sign
Signed(sign, n, d) ==
  LET reduced(num, den, g) ==
        IF num = 0
          THEN [t |-> "num", n |-> 0, d |-> sign]
          ELSE [t |-> "num", n |-> sign * (num \div g), d |-> den \div g]
  IN  reduced(Abs(n), Abs(d), Gcd(Abs(n), Abs(d)))
Num(n) == [t |-> "num", n |-> n, d |-> 1]
NegZero == [t |-> "num", n |-> 0, d |-> -1]

\* typeof value === 'number'
IsNumber(v) == v.t \in {"num", "inf", "nan"}
SignOf(v) == IF v.t = "inf" THEN v.sign ELSE IF v.n < 0 \/ v.d < 0 THEN -1 ELSE 1
IsZero(v) == v.t = "num" /\ v.n = 0

\* Number.isInteger
NumberIsInteger(v) == v.t = "num" /\ Abs(v.d) = 1

\* Math.trunc: the fraction is dropped and the sign kept
MathTrunc(v) ==
  IF v.t = "num" THEN Signed(SignOf(v), Abs(v.n) \div Abs(v.d), 1) ELSE v

\* IEEE arithmetic on the exact values
NumNeg(a) ==
  IF a.t = "nan" THEN NaN
  ELSE IF a.t = "inf" THEN Inf(-a.sign)
  ELSE Signed(-SignOf(a), a.n, a.d)

NumAdd(a, b) ==
  LET finite(n) ==
        IF n = 0
          THEN IF SignOf(a) = -1 /\ SignOf(b) = -1 /\ a.n = 0 THEN NegZero ELSE Num(0)
          ELSE Signed(IF n < 0 THEN -1 ELSE 1, n, a.d * b.d)
  IN  IF a.t = "nan" \/ b.t = "nan" THEN NaN
      ELSE IF a.t = "inf" /\ b.t = "inf"
        THEN IF a.sign = b.sign THEN a ELSE NaN
      ELSE IF a.t = "inf" THEN a
      ELSE IF b.t = "inf" THEN b
      ELSE finite(a.n * Abs(b.d) + b.n * Abs(a.d))

NumMul(a, b) ==
  IF a.t = "nan" \/ b.t = "nan" THEN NaN
  ELSE IF a.t = "inf" \/ b.t = "inf"
    THEN IF IsZero(a) \/ IsZero(b) THEN NaN ELSE Inf(SignOf(a) * SignOf(b))
  ELSE Signed(SignOf(a) * SignOf(b), a.n * b.n, a.d * b.d)

NumDiv(a, b) ==
  IF a.t = "nan" \/ b.t = "nan" THEN NaN
  ELSE IF a.t = "inf"
    THEN IF b.t = "inf" THEN NaN ELSE Inf(SignOf(a) * SignOf(b))
  ELSE IF b.t = "inf" THEN Signed(SignOf(a) * SignOf(b), 0, 1)
  ELSE IF IsZero(b)
    THEN IF IsZero(a) THEN NaN ELSE Inf(SignOf(a) * SignOf(b))
  ELSE Signed(SignOf(a) * SignOf(b), a.n * Abs(b.d), Abs(a.d) * b.n)

\* the remainder has the sign of the dividend: a - b * trunc(a / b)
NumMod(a, b) ==
  IF a.t = "nan" \/ b.t = "nan" \/ a.t = "inf" \/ IsZero(b) THEN NaN
  ELSE IF b.t = "inf" THEN a
  ELSE Signed(SignOf(a), (Abs(a.n) * Abs(b.d)) % (Abs(b.n) * Abs(a.d)),
              Abs(a.d) * Abs(b.d))

\* numeric equality and order; NaN compares false, the two zeros are equal
NumEq(a, b) ==
  /\ a.t # "nan" /\ b.t # "nan"
  /\ IF a.t = "inf" \/ b.t = "inf"
       THEN a = b
       ELSE a.n * Abs(b.d) = b.n * Abs(a.d)
NumLt(a, b) ==
  /\ a.t # "nan" /\ b.t # "nan"
  /\ IF a.t = "inf" THEN a.sign = -1 /\ b # a
     ELSE IF b.t = "inf" THEN b.sign = 1
     ELSE a.n * Abs(b.d) < b.n * Abs(a.d)

(***************************************************************************)
(* Conversions between strings and numbers.                                *)
(***************************************************************************)
DigitChars == <<"0", "1", "2", "3", "4", "5", "6", "7", "8", "9">>
DigitVal(c) == (CHOOSE k \in 1..10 : DigitChars[k] = c) - 1

RECURSIVE NatToString(_)
NatToString(n) ==
  IF n < 10 THEN <<DigitChars[n + 1]>>
  ELSE NatToString(n \div 10) \o <<DigitChars[(n % 10) + 1]>>

RECURSIVE DigitsToNat(_)
DigitsToNat(ds) ==
  IF ds = <<>> THEN 0
  ELSE 10 * DigitsToNat(SubSeq(ds, 1, Len(ds) - 1)) + DigitVal(ds[Len(ds)])

RECURSIVE Pow10(_)
Pow10(k) == IF k = 0 THEN 1 ELSE 10 * Pow10(k - 1)

AllIn(s, chars) == \A k \in 1..Len(s) : s[k] \in chars

RECURSIVE TrimStart(_)
TrimStart(s) ==
  IF s # <<>> /\ Head(s) \in Whitespace THEN TrimStart(Tail(s)) ELSE s
RECURSIVE TrimEnd(_)
TrimEnd(s) ==
  IF s # <<>> /\ s[Len(s)] \in Whitespace
    THEN TrimEnd(SubSeq(s, 1, Len(s) - 1))
    ELSE s
\* String.prototype.trim
Trim(s) == TrimEnd(TrimStart(s))

\* the length of the longest prefix of s made of chars
RECURSIVE PrefixLen(_, _)
PrefixLen(s, chars) ==
  IF s # <<>> /\ Head(s) \in chars THEN 1 + PrefixLen(Tail(s), chars) ELSE 0

\* s matches digits(.digits)?
IsUnsignedDecimal(s) ==
  LET matches(k) ==
        /\ k >= 1
        /\ \/ k = Len(s)
           \/ /\ k + 2 <= Len(s)
              /\ s[k + 1] = "."
              /\ AllIn(SubSeq(s, k + 2, Len(s)), Digits)
  IN  matches(PrefixLen(s, Digits))

\* the value of a string matching digits(.digits)?
UnsignedDecimalValue(s) ==
  LET value(int, frac) ==
        Signed(1, DigitsToNat(int) * Pow10(Len(frac)) + DigitsToNat(frac),
               Pow10(Len(frac)))
      split(k) ==
        value(SubSeq(s, 1, k), IF k = Len(s) THEN <<>> ELSE SubSeq(s, k + 2, Len(s)))
  IN  split(PrefixLen(s, Digits))

Unsign(s) == IF s # <<>> /\ Head(s) = "-" THEN Tail(s) ELSE s
\* /^-?\d+(\.\d+)?$/.test(s)
IsNumericLike(s) == IsUnsignedDecimal(Unsign(s))

\* Number(s) for a string that passed IsNumericLike
NumericLikeValue(s) ==
  LET signed(v) == IF Head(s) = "-" THEN NumNeg(v) ELSE v
  IN  signed(UnsignedDecimalValue(Unsign(s)))

InfinityString == <<"I", "n", "f", "i", "n", "i", "t", "y">>

\* Number(s) for any string: the trimmed decimal forms; a string with no
\* digit that does not spell Infinity is NaN; the other numeric spellings
\* (exponents, radix prefixes, a leading +, a bare point) are not computed
StringToNumber(s) ==
  LET other(trimmed) ==
        IF (\E k \in 1..Len(trimmed) : trimmed[k] \in Digits)
           \/ (Len(trimmed) >= 8
               /\ SubSeq(trimmed, Len(trimmed) - 7, Len(trimmed)) = InfinityString)
          THEN Unmodelled
          ELSE NaN
      number(trimmed) ==
        IF trimmed = <<>> THEN Num(0)
        ELSE IF IsNumericLike(trimmed) THEN NumericLikeValue(trimmed)
        ELSE other(trimmed)
  IN  number(Trim(s))

IntegerName == <<"I", "n", "t", "e", "g", "e", "r">>
ParseIntName == <<"p", "a", "r", "s", "e", "I", "n", "t">>
\* BUILT_INS.Integer, the frozen helper object, and its parseInt method
IntegerHelper == [t |-> "object", name |-> IntegerName]
ParseIntFunction == [t |-> "function", name |-> ParseIntName]

\* a marker for a string form this model does not compute
UnmodelledString == <<"?unmodelled?">>

\* String(value)
String(v) ==
  CASE v.t = "str" -> v.s
    [] v.t = "num" ->
         IF NumberIsInteger(v)
           THEN (IF v.n < 0 THEN <<"-">> ELSE <<>>) \o NatToString(Abs(v.n))
           ELSE UnmodelledString
    [] v.t = "inf" -> (IF v.sign < 0 THEN <<"-">> ELSE <<>>) \o InfinityString
    [] v.t = "nan" -> <<"N", "a", "N">>
    [] v.t = "bool" -> IF v.b THEN <<"t", "r", "u", "e">> ELSE <<"f", "a", "l", "s", "e">>
    [] v.t = "undefined" -> <<"u", "n", "d", "e", "f", "i", "n", "e", "d">>
    [] v.t = "null" -> <<"n", "u", "l", "l">>
    [] v.t = "object" ->
         <<"[", "o", "b", "j", "e", "c", "t", " ", "O", "b", "j", "e", "c", "t", "]">>
    [] OTHER -> UnmodelledString

\* Number(value)
ToNumber(v) ==
  CASE IsNumber(v) -> v
    [] v.t = "str" -> StringToNumber(v.s)
    [] v.t = "bool" -> IF v.b THEN Num(1) ELSE Num(0)
    [] v.t = "undefined" -> NaN
    [] v.t = "null" -> Num(0)
    [] v.t = "object" -> NaN
    [] OTHER -> Unmodelled

\* Boolean(value)
ToBoolean(v) ==
  CASE v.t = "bool" -> v.b
    [] v.t = "num" -> v.n # 0
    [] v.t = "nan" -> FALSE
    [] v.t = "str" -> v.s # <<>>
    [] v.t \in {"undefined", "null"} -> FALSE
    [] OTHER -> TRUE

(***************************************************************************)
(* BUILT_INS.Integer.parseInt (compiler.js 20-30)                          *)
(***************************************************************************)
\* Number.parseInt(s, 10): the longest signed digit prefix after leading
\* white space, NaN when there is none
NumberParseInt(s) ==
  LET prefix(negative, digits, k) ==
        IF k = 0 THEN NaN
        ELSE Signed(IF negative THEN -1 ELSE 1, DigitsToNat(SubSeq(digits, 1, k)), 1)
      unsigned(negative, digits) == prefix(negative, digits, PrefixLen(digits, Digits))
      trimmed(t) ==
        unsigned(t # <<>> /\ Head(t) = "-",
                 IF t # <<>> /\ Head(t) \in {"-", "+"} THEN Tail(t) ELSE t)
  IN  trimmed(TrimStart(s))

\* lines 22-28
parseInt(value) ==
  LET checked(parsed) ==
        IF parsed.t = "nan"
          THEN [ok |-> FALSE, error |-> "Unable to parse integer from value"]
          ELSE [ok |-> TRUE, value |-> parsed]
      parse(str) ==
        IF str = UnmodelledString THEN [ok |-> FALSE, error |-> "Unmodelled"]
        ELSE checked(NumberParseInt(str))
  IN  parse(String(value))

(***************************************************************************)
(* normalizeValue, coerceNumericLike, createContext, interpolate           *)
(* (compiler.js 32-67, 81-89)                                              *)
(***************************************************************************)
\* a value stored as it is, a fraction included
normalizeValueExact(value) == value

normalizeValue(value) ==
  IF IsNumber(value)
    THEN IF NumberIsInteger(value) THEN value ELSE MathTrunc(value)
    ELSE value

coerceNumericLike(value) ==
  LET coerce(trimmed) ==
        IF trimmed # <<>> /\ IsNumericLike(trimmed)
          THEN NumericLikeValue(trimmed)
          ELSE value
  IN  IF IsNumber(value) THEN value
      ELSE IF value.t = "str" THEN coerce(Trim(value.s))
      ELSE value

BUILT_INS == [key \in {IntegerName} |-> IntegerHelper]

\* context[name]: a missing property reads as undefined
Lookup(context, name) ==
  IF name \in DOMAIN context THEN context[name] ELSE Undefined

\* a context in which the caller's entries are copied last, unchecked
createContextUnchecked(userContext) ==
  [key \in (DOMAIN BUILT_INS) \cup (DOMAIN userContext) |->
     IF key \in DOMAIN userContext THEN userContext[key] ELSE BUILT_INS[key]]

createContext(userContext) ==
  [key \in (DOMAIN BUILT_INS) \cup (DOMAIN userContext) |->
     IF key \in DOMAIN BUILT_INS THEN BUILT_INS[key] ELSE userContext[key]]

\* the replacement callback of interpolate
interpolateValue(context, name) ==
  LET shown(value) ==
        IF value.t \in {"undefined", "null"} THEN <<>> ELSE String(value)
  IN  shown(Lookup(context, name))

RECURSIVE interpolateFrom(_, _, _)
\* text.replace(/\$([A-Za-z_][\w]*)/g, ...), scanning from position i; k is
\* the number of characters of a name after its first
interpolateFrom(text, context, i) ==
  LET reference(k) ==
        interpolateValue(context, slice(text, i + 1, i + 2 + k))
          \o interpolateFrom(text, context, i + 2 + k)
  IN  IF i >= Len(text) THEN <<>>
      ELSE IF at(text, i) = "$" /\ i + 1 < Len(text) /\ at(text, i + 1) \in IdentStart
        THEN reference(PrefixLen(SubSeq(text, i + 3, Len(text)), WordChars))
        ELSE <<at(text, i)>> \o interpolateFrom(text, context, i + 1)

interpolate(text, context) == interpolateFrom(text, context, 0)

(***************************************************************************)
(* evaluateExpression (compiler.js 69-79).  The source rewrites every      *)
(* $name to __resolve("name") and runs the text as a script in a fresh     *)
(* sandbox.  The model reads the same text: a lexer, a parser for the      *)
(* operators the templates use and an evaluator with the host language's   *)
(* coercions.  A construct outside that fragment yields "Unmodelled".      *)
(***************************************************************************)
SyntaxError == [ok |-> FALSE, error |-> "SyntaxError"]
ReferenceError == [ok |-> FALSE, error |-> "ReferenceError"]
TypeError == [ok |-> FALSE, error |-> "TypeError"]
UnmodelledError == [ok |-> FALSE, error |-> "Unmodelled"]

IdentChars == WordChars \cup {"$"}
\* identifiers known not to be bound in the sandbox nor reserved
IsUndeclared(name) == AllIn(name, {"x", "a", "$"} \cup Digits)

\* the positions (1-based) of a run where the rewrite inserts a resolver call
ResolvePositions(run) ==
  {k \in 1..(Len(run) - 1) : run[k] = "$" /\ run[k + 1] \in IdentStart}

\* a maximal run of identifier characters, after the rewrite:
\*   no $name inside        -> an identifier
\*   exactly $name          -> a resolver call
\*   prefix then $name      -> a call of the unbound identifier prefix__resolve
\*   anything after a $name -> a call followed by an identifier: no script
lexRun(run) ==
  LET one(q) ==
        IF ~AllIn(SubSeq(run, q + 1, Len(run)), WordChars) THEN SyntaxError
        ELSE IF q = 1
          THEN [ok |-> TRUE, len |-> Len(run),
                lexeme |-> [k |-> "var", name |-> SubSeq(run, 2, Len(run))]]
        ELSE [ok |-> TRUE, len |-> Len(run), lexeme |-> [k |-> "badcall"]]
      calls(ps) ==
        IF ps = {}
          THEN [ok |-> TRUE, len |-> Len(run), lexeme |-> [k |-> "ident", name |-> run]]
        ELSE IF Cardinality(ps) > 1 THEN SyntaxError
        ELSE one(CHOOSE q \in ps : TRUE)
  IN  calls(ResolvePositions(run))

\* a numeric literal digits(.digits)? at the head of s: k integer digits, len
\* characters in all, followed by next
lexNumber(s) ==
  LET literal(k, len, next) ==
        IF (k > 1 /\ s[1] = "0") \/ next = "." THEN UnmodelledError
        ELSE IF next \in IdentChars THEN SyntaxError
        ELSE [ok |-> TRUE, len |-> len,
              lexeme |-> [k |-> "lit", v |-> UnsignedDecimalValue(SubSeq(s, 1, len))]]
      whole(k, len) == literal(k, len, IF len < Len(s) THEN s[len + 1] ELSE " ")
      integer(k) ==
        whole(k, IF k + 2 <= Len(s) /\ s[k + 1] = "." /\ s[k + 2] \in Digits
                   THEN k + 1 + PrefixLen(SubSeq(s, k + 2, Len(s)), Digits)
                   ELSE k)
  IN  integer(PrefixLen(s, Digits))

\* a double-quoted string literal at the head of s
lexString(s) ==
  LET quoted(body, k) ==
        IF k >= Len(body) THEN SyntaxError
        ELSE IF body[k + 1] # "\"" THEN UnmodelledError
        ELSE IF ResolvePositions(SubSeq(body, 1, k)) # {} THEN SyntaxError
        ELSE [ok |-> TRUE, len |-> k + 2,
              lexeme |-> [k |-> "lit", v |-> Str(SubSeq(body, 1, k))]]
  IN  quoted(Tail(s),
             PrefixLen(Tail(s), IdentChars \cup Whitespace \cup {"#", "(", ")", "-", "."}))

\* the punctuators of one, two and three characters
Punct ==
  << {"+", "-", "*", "/", "%", "<", ">", "!", "(", ")", "."},
     {<<"=", "=">>, <<"!", "=">>, <<"<", "=">>, <<">", "=">>, <<"&", "&">>, <<"|", "|">>},
     {<<"=", "=", "=">>, <<"!", "=", "=">>} >>

\* the lexeme at the head of s, which is not white space
lexOne(s) ==
  LET op(len) ==
        [ok |-> TRUE, len |-> len, lexeme |-> [k |-> "op", s |-> SubSeq(s, 1, len)]]
  IN  IF Head(s) = "#" THEN SyntaxError
      ELSE IF Head(s) \in Digits THEN lexNumber(s)
      ELSE IF Head(s) \in IdentChars THEN lexRun(SubSeq(s, 1, PrefixLen(s, IdentChars)))
      ELSE IF Head(s) = "\"" THEN lexString(s)
      ELSE IF Len(s) >= 3 /\ SubSeq(s, 1, 3) \in Punct[3] THEN op(3)
      \* two characters that start a comment or an update operator
      ELSE IF Len(s) >= 2 /\ SubSeq(s, 1, 2) \in
                {<<"/", "/">>, <<"/", "*">>, <<"+", "+">>, <<"-", "-">>}
        THEN UnmodelledError
      ELSE IF Len(s) >= 2 /\ SubSeq(s, 1, 2) \in Punct[2] THEN op(2)
      ELSE IF Head(s) \in Punct[1] THEN op(1)
      ELSE UnmodelledError

RECURSIVE lex(_, _)
\* the lexemes of s, given those already read
lex(s, acc) ==
  LET next(r) ==
        IF r.ok THEN lex(SubSeq(s, r.len + 1, Len(s)), Append(acc, r.lexeme)) ELSE r
  IN  IF s = <<>> THEN [ok |-> TRUE, lexemes |-> acc]
      ELSE IF Head(s) \in Whitespace THEN lex(Tail(s), acc)
      ELSE next(lexOne(s))

\* the binary operators, loosest first
BinaryLevels ==
  << {<<"|", "|">>},
     {<<"&", "&">>},
     {<<"=", "=">>, <<"!", "=">>, <<"=", "=", "=">>, <<"!", "=", "=">>},
     {<<"<">>, <<">">>, <<"<", "=">>, <<">", "=">>},
     {<<"+">>, <<"-">>},
     {<<"*">>, <<"/">>, <<"%">>} >>

\* the lexeme at pos, or the end of the script
peek(lexemes, pos) == IF pos <= Len(lexemes) THEN lexemes[pos] ELSE [k |-> "eof"]
IsOp(lexeme, ops) == lexeme.k = "op" /\ lexeme.s \in ops
LiteralNames ==
  {<<"t", "r", "u", "e">>, <<"f", "a", "l", "s", "e">>, <<"n", "u", "l", "l">>,
   <<"u", "n", "d", "e", "f", "i", "n", "e", "d">>, <<"N", "a", "N">>, InfinityString}

\* a lexeme where the grammar allows none: a word outside the fragment may be
\* an operator or a statement of the host language
unexpected(lexeme) ==
  IF lexeme.k = "ident" /\ ~IsUndeclared(lexeme.name) THEN UnmodelledError
  ELSE SyntaxError

RECURSIVE parseLevel(_, _, _), parseRest(_, _, _, _), parseUnary(_, _),
          parsePostfix(_, _, _), parsePrimary(_, _)

\* Expression at binary level `level`, starting at pos
parseLevel(level, lexemes, pos) ==
  LET rest(left) ==
        IF left.ok THEN parseRest(level, lexemes, left.pos, left.node) ELSE left
  IN  IF level > Len(BinaryLevels) THEN parseUnary(lexemes, pos)
      ELSE rest(parseLevel(level + 1, lexemes, pos))

\* left-associative tail: (op operand)*
parseRest(level, lexemes, pos, left) ==
  LET operand(right) ==
        IF right.ok
          THEN parseRest(level, lexemes, right.pos,
                         [k |-> "bin", op |-> lexemes[pos].s, l |-> left, r |-> right.node])
          ELSE right
  IN  IF IsOp(peek(lexemes, pos), BinaryLevels[level])
        THEN operand(parseLevel(level + 1, lexemes, pos + 1))
        ELSE [ok |-> TRUE, node |-> left, pos |-> pos]

parseUnary(lexemes, pos) ==
  LET prefixed(operand) ==
        IF operand.ok
          THEN [ok |-> TRUE, pos |-> operand.pos,
                node |-> [k |-> "un", op |-> lexemes[pos].s, a |-> operand.node]]
          ELSE operand
      postfixed(primary) ==
        IF primary.ok THEN parsePostfix(lexemes, primary.pos, primary.node) ELSE primary
  IN  IF IsOp(peek(lexemes, pos), {<<"-">>, <<"!">>, <<"+">>})
        THEN prefixed(parseUnary(lexemes, pos + 1))
        ELSE postfixed(parsePrimary(lexemes, pos))

\* member access and calls: (.name | (argument?))*
parsePostfix(lexemes, pos, node) ==
  LET member(name) ==
        IF name.k = "ident"
          THEN parsePostfix(lexemes, pos + 2,
                            [k |-> "member", obj |-> node, name |-> name.name])
        ELSE IF name.k \in {"var", "badcall"} THEN UnmodelledError
        ELSE SyntaxError
      call(arg) ==
        IF ~arg.ok THEN arg
        ELSE IF IsOp(peek(lexemes, arg.pos), {<<")">>})
          THEN parsePostfix(lexemes, arg.pos + 1,
                            [k |-> "call", f |-> node, args |-> <<arg.node>>])
        ELSE unexpected(peek(lexemes, arg.pos))
  IN  IF IsOp(peek(lexemes, pos), {<<".">>})
        THEN member(peek(lexemes, pos + 1))
      ELSE IF IsOp(peek(lexemes, pos), {<<"(">>})
        THEN IF IsOp(peek(lexemes, pos + 1), {<<")">>})
               THEN parsePostfix(lexemes, pos + 2,
                                 [k |-> "call", f |-> node, args |-> <<>>])
               ELSE call(parseLevel(1, lexemes, pos + 1))
      ELSE [ok |-> TRUE, node |-> node, pos |-> pos]

parsePrimary(lexemes, pos) ==
  LET close(inner) ==
        IF ~inner.ok THEN inner
        ELSE IF IsOp(peek(lexemes, inner.pos), {<<")">>})
          THEN [ok |-> TRUE, node |-> inner.node, pos |-> inner.pos + 1]
        ELSE unexpected(peek(lexemes, inner.pos))
      primary(lexeme) ==
        IF lexeme.k \in {"lit", "var", "badcall"}
          THEN [ok |-> TRUE, node |-> lexeme, pos |-> pos + 1]
        ELSE IF lexeme.k = "ident"
          THEN IF IsUndeclared(lexeme.name) \/ lexeme.name \in LiteralNames
                 THEN [ok |-> TRUE, node |-> lexeme, pos |-> pos + 1]
                 ELSE UnmodelledError
        ELSE IF IsOp(lexeme, {<<"(">>})
          THEN close(parseLevel(1, lexemes, pos + 1))
        ELSE IF IsOp(lexeme, {<<"/">>, <<".">>}) THEN UnmodelledError
        ELSE SyntaxError
  IN  primary(peek(lexemes, pos))

\* new vm.Script(text): an empty script, or one expression statement
parseScript(text) ==
  LET whole(lexemes, parsed) ==
        IF ~parsed.ok THEN parsed
        ELSE IF parsed.pos <= Len(lexemes) THEN unexpected(lexemes[parsed.pos])
        ELSE [ok |-> TRUE, node |-> parsed.node]
      script(lexed) ==
        IF ~lexed.ok THEN lexed
        ELSE IF lexed.lexemes = <<>> THEN [ok |-> TRUE, node |-> [k |-> "empty"]]
        ELSE whole(lexed.lexemes, parseLevel(1, lexed.lexemes, 1))
  IN  script(lex(text, <<>>))

\* the operators of the host language on values
Ok(v) == IF v.t = "unmodelled" THEN UnmodelledError ELSE [ok |-> TRUE, value |-> v]

\* value.name; the names made of x and a are known to be on no prototype
getMember(v, name) ==
  IF v.t \in {"undefined", "null"} THEN TypeError
  ELSE IF v = IntegerHelper /\ name = ParseIntName THEN Ok(ParseIntFunction)
  ELSE IF AllIn(name, {"x", "a"}) THEN Ok(Undefined)
  ELSE UnmodelledError

\* ToPrimitive: the helper object prints as [object Object]
ToPrimitive(v) ==
  IF v.t = "object" THEN Str(String(v))
  ELSE IF v.t = "function" THEN Unmodelled
  ELSE v

arithmetic(op, a, b) ==
  LET numbers(x, y) ==
        IF x.t = "unmodelled" \/ y.t = "unmodelled" THEN Unmodelled
        ELSE CASE op = <<"-">> -> NumAdd(x, NumNeg(y))
               [] op = <<"*">> -> NumMul(x, y)
               [] op = <<"/">> -> NumDiv(x, y)
               [] op = <<"%">> -> NumMod(x, y)
  IN  numbers(ToNumber(a), ToNumber(b))

plus(a, b) ==
  LET concatenate(s1, s2) ==
        IF UnmodelledString \in {s1, s2} THEN Unmodelled ELSE Str(s1 \o s2)
      add(x, y) ==
        IF x.t = "unmodelled" \/ y.t = "unmodelled" THEN Unmodelled ELSE NumAdd(x, y)
      primitives(x, y) ==
        IF x.t = "unmodelled" \/ y.t = "unmodelled" THEN Unmodelled
        ELSE IF x.t = "str" \/ y.t = "str" THEN concatenate(String(x), String(y))
        ELSE add(ToNumber(x), ToNumber(y))
  IN  primitives(ToPrimitive(a), ToPrimitive(b))

relational(op, a, b) ==
  LET numbers(x, y) ==
        IF x.t = "unmodelled" \/ y.t = "unmodelled" THEN Unmodelled
        ELSE CASE op = <<"<">> -> Bool(NumLt(x, y))
               [] op = <<">">> -> Bool(NumLt(y, x))
               [] op = <<"<", "=">> -> Bool(NumLt(x, y) \/ NumEq(x, y))
               [] op = <<">", "=">> -> Bool(NumLt(y, x) \/ NumEq(x, y))
  IN  IF a.t \in {"object", "function"} \/ b.t \in {"object", "function"}
         \/ (a.t = "str" /\ b.t = "str")
        THEN Unmodelled
        ELSE numbers(ToNumber(a), ToNumber(b))

Nullish == {"undefined", "null"}

\* a === b
strictEquals(a, b) ==
  IF IsNumber(a) /\ IsNumber(b) THEN NumEq(a, b) ELSE a = b

\* a == b
looseEquals(a, b) ==
  LET numbers(x, y) ==
        IF x.t = "unmodelled" \/ y.t = "unmodelled" THEN Unmodelled
        ELSE Bool(NumEq(x, y))
      primitives(x, y) ==
        IF x.t = "unmodelled" \/ y.t = "unmodelled" THEN Unmodelled
        ELSE IF x.t = "str" /\ y.t = "str" THEN Bool(x.s = y.s)
        ELSE numbers(ToNumber(x), ToNumber(y))
  IN  IF (IsNumber(a) /\ IsNumber(b)) \/ a.t = b.t THEN Bool(strictEquals(a, b))
      ELSE IF a.t \in Nullish \/ b.t \in Nullish
        THEN Bool(a.t \in Nullish /\ b.t \in Nullish)
      ELSE primitives(ToPrimitive(a), ToPrimitive(b))

binary(op, a, b) ==
  LET equality(loose, strict) ==
        CASE op = <<"=", "=">> -> loose
          [] op = <<"!", "=">> -> IF loose.t = "unmodelled" THEN loose ELSE Bool(~loose.b)
          [] op = <<"=", "=", "=">> -> Bool(strict)
          [] op = <<"!", "=", "=">> -> Bool(~strict)
  IN  CASE op = <<"+">> -> plus(a, b)
        [] op \in BinaryLevels[6] \cup {<<"-">>} -> arithmetic(op, a, b)
        [] op \in BinaryLevels[4] -> relational(op, a, b)
        [] op \in BinaryLevels[3] -> equality(looseEquals(a, b), strictEquals(a, b))

unary(op, a) ==
  LET negate(x) == IF x.t = "unmodelled" THEN Unmodelled ELSE NumNeg(x)
  IN  CASE op = <<"!">> -> Bool(~ToBoolean(a))
        [] op = <<"+">> -> ToNumber(a)
        [] op = <<"-">> -> negate(ToNumber(a))

\* the value of a word that is a literal of the host language
literalValue(name) ==
  CASE name = <<"t", "r", "u", "e">> -> Bool(TRUE)
    [] name = <<"f", "a", "l", "s", "e">> -> Bool(FALSE)
    [] name = <<"n", "u", "l", "l">> -> Null
    [] name = <<"N", "a", "N">> -> NaN
    [] name = InfinityString -> Inf(1)
    [] OTHER -> Undefined

\* __resolve(name)
resolve(context, name) == coerceNumericLike(Lookup(context, name))

\* calling a value: only Integer.parseInt is a function
callValue(f, args) ==
  IF f = ParseIntFunction
    THEN parseInt(IF args = <<>> THEN Undefined ELSE args[1])
  ELSE TypeError

RECURSIVE evalNode(_, _)
\* script.runInNewContext: the completion value, or the error thrown; && and
\* || return the left operand without evaluating the right one
evalNode(node, context) ==
  LET applied(a) == IF a.ok THEN Ok(unary(node.op, a.value)) ELSE a
      both(l, r) == IF r.ok THEN Ok(binary(node.op, l.value, r.value)) ELSE r
      left(l) ==
        IF ~l.ok THEN l
        ELSE IF node.op \in {<<"|", "|">>, <<"&", "&">>}
          THEN IF ToBoolean(l.value) = (node.op = <<"|", "|">>)
                 THEN l
                 ELSE evalNode(node.r, context)
        ELSE both(l, evalNode(node.r, context))
      member(obj) == IF obj.ok THEN getMember(obj.value, node.name) ELSE obj
      call(f, arg) ==
        IF ~f.ok THEN f
        ELSE IF ~arg.ok THEN arg
        ELSE callValue(f.value, <<arg.value>>)
  IN  CASE node.k = "empty" -> Ok(Undefined)
        [] node.k = "lit" -> Ok(node.v)
        [] node.k = "var" -> Ok(resolve(context, node.name))
        [] node.k = "ident" ->
             IF node.name \in LiteralNames THEN Ok(literalValue(node.name))
             ELSE ReferenceError
        [] node.k = "badcall" -> ReferenceError
        [] node.k = "un" -> applied(evalNode(node.a, context))
        [] node.k = "bin" -> left(evalNode(node.l, context))
        [] node.k = "member" -> member(evalNode(node.obj, context))
        [] node.k = "call" ->
             call(evalNode(node.f, context),
                  IF node.args = <<>> THEN Ok(Undefined)
                  ELSE evalNode(node.args[1], context))

evaluateExpression(rawExpression, context) ==
  LET run(script) == IF script.ok THEN evalNode(script.node, context) ELSE script
  IN  run(parseScript(rawExpression))

(***************************************************************************)
(* The program state.  Every variable but velocityEngine is indexed by the *)
(* call: each call of renderTemplate has its own arguments and locals.     *)
(***************************************************************************)
VARIABLES
  velocityEngine, \* the module-level constant: the loaded module, or null
  reentrant,      \* the host: TRUE when a call may start or go on while another
                  \*   is in progress (a caller's function that renders, or the
                  \*   parallel use of the module), FALSE when calls follow
                  \*   each other
  template,       \* argument: the template text
  userContext,    \* argument: the caller's mapping from names to values
  options,        \* argument of renderTemplate
  pc,             \* where the call is: "idle" (never made), "start", "render",
                  \*   "loop" (the for-of over the tokens) or "done"
  context,        \* render's local: the context built by createContext
  tokens,         \* render's local: the token list
  index,          \* the position of the for-of loop in tokens (1-based)
  frameStack,     \* render's local: the stack of conditional frames
  output,         \* render's local: the list of output fragments
  renderResult,   \* how render completed: a returned string or a thrown error
  result,         \* how renderTemplate completed
  velocityCalls,  \* history: the outcomes of velocityEngine.render, in order
  evalLog,        \* history: one record per set/if/elseif token processed
  branchesRun     \* history: per open frame, how many of its branches were active

vars ==
  <<velocityEngine, reentrant, template, userContext, options, pc, context, tokens, index,
    frameStack, output, renderResult, result, velocityCalls, evalLog, branchesRun>>

renderLocals == <<context, tokens, index, frameStack, output>>
arguments == <<velocityEngine, reentrant, template, userContext, options>>

Calls == {1, 2}
NoResult == [status |-> "none"]
Returned(value) == [status |-> "returned", value |-> value]
Thrown(error) == [status |-> "thrown", error |-> error]

\* a scope taken for active whatever the frames say
isFrameActiveAlways(stack) == TRUE

\* isFrameActive (compiler.js 166-168)
isFrameActive(stack) == \A k \in 1..Len(stack) : stack[k].active

\* A call takes a step at `position`.  A host that is not reentrant runs one
\* call at a time, to completion: the call steps only while no other call is
\* between its start and its end.
Scheduled(c, position) ==
  /\ pc[c] = position
  /\ reentrant \/ \A d \in Calls \ {c} : pc[d] \in {"idle", "start", "done"}

\* a context kept at module level, the same for every call
contextShared(c) == 1

\* const context = createContext(userContext) (line 171) is a local of the
\* call: call c works on the context it has built itself
contextOf(c) == c

(***************************************************************************)
(* renderWithVelocity and renderTemplate (compiler.js 256-273)             *)
(***************************************************************************)
VelocityModule == [t |-> "object", name |-> <<"v", "e", "l", "o", "c", "i", "t", "y", "j", "s">>]
\* what the external renderer may do when called: return a string (possibly
\* empty), return null or undefined, or throw
VelocityOutcomes ==
  {Returned(Str(<<"V">>)), Returned(Str(<<>>)), Returned(Null), Returned(Undefined),
   Thrown("velocity failure")}

\* options.preferVelocity, undefined when omitted
preferVelocity(opts) ==
  IF "preferVelocity" \in DOMAIN opts THEN opts["preferVelocity"] ELSE Undefined

\* renderWithVelocity: null without an engine, else whatever the engine does
renderWithVelocity(engine, outcome) ==
  IF ~ToBoolean(engine) THEN Returned(Null) ELSE outcome

\* a test of the rendered value for truth, which an empty string fails
isTruthy(rendered) == ToBoolean(rendered)

\* rendered !== null && rendered !== undefined
isUsable(rendered) == rendered.t \notin {"null", "undefined"}

\* renderTemplate up to the call of render (lines 266-271): the completion of
\* the call when the alternate backend decides it, none when control reaches
\* render.  A usable result is returned, a throw propagates.
renderTemplateEarly(opts, engine, outcome) ==
  LET velocityResult(rendered) ==
        IF rendered.status = "thrown" THEN rendered
        ELSE IF isUsable(rendered.value) THEN rendered
        ELSE NoResult
  IN  IF ToBoolean(preferVelocity(opts))
        THEN velocityResult(renderWithVelocity(engine, outcome))
        ELSE NoResult

\* the external renderer is called when it is preferred and loaded
velocityCalled(opts, engine) == ToBoolean(preferVelocity(opts)) /\ ToBoolean(engine)

\* renderTemplate (lines 265-273) up to the call of render
RenderTemplate(c) ==
  LET with(outcome, early) ==
        /\ velocityCalls' =
             [velocityCalls EXCEPT ![c] =
                IF velocityCalled(options[c], velocityEngine) THEN Append(@, outcome) ELSE @]
        /\ IF early = NoResult
             THEN /\ pc' = [pc EXCEPT ![c] = "render"]
                  /\ result' = result
             ELSE /\ pc' = [pc EXCEPT ![c] = "done"]
                  /\ result' = [result EXCEPT ![c] = early]
  IN  /\ Scheduled(c, "start")
      /\ \E outcome \in VelocityOutcomes :
           with(outcome, renderTemplateEarly(options[c], velocityEngine, outcome))
      /\ UNCHANGED <<arguments, renderLocals, renderResult, evalLog, branchesRun>>

(***************************************************************************)
(* render (compiler.js 170-254)                                            *)
(***************************************************************************)
\* render completes, and renderTemplate returns or rethrows its completion
Complete(c, completion) ==
  /\ renderResult' = [renderResult EXCEPT ![c] = completion]
  /\ result' = [result EXCEPT ![c] = completion]
  /\ pc' = [pc EXCEPT ![c] = "done"]

\* a loop that stays on its token
AdvanceStay(c) ==
  /\ index' = [index EXCEPT ![c] = @]
  /\ UNCHANGED <<pc, renderResult, result>>

\* the for-of loop moves to the next token
Advance(c) ==
  /\ index' = [index EXCEPT ![c] = @ + 1]
  /\ UNCHANGED <<pc, renderResult, result>>

Token(c) == tokens[c][index[c]]
Processing(c, type) ==
  /\ Scheduled(c, "loop")
  /\ index[c] <= Len(tokens[c])
  /\ Token(c).type = type

Log(c, entry) == evalLog' = [evalLog EXCEPT ![c] = Append(@, entry)]
LogEntry(c, active, parentActive, branchSatisfied, evaluated) ==
  [index |-> index[c], type |-> Token(c).type, active |-> active,
   parentActive |-> parentActive, branchSatisfied |-> branchSatisfied,
   evaluated |-> evaluated]

\* lines 171-176: build the context, tokenize, start with empty locals
Render(c) ==
  LET tokenized(done) ==
        IF done.ok
          THEN /\ tokens' = [tokens EXCEPT ![c] = done.tokens]
               /\ index' = [index EXCEPT ![c] = 1]
               /\ pc' = [pc EXCEPT ![c] = "loop"]
               /\ UNCHANGED <<renderResult, result>>
          ELSE /\ Complete(c, Thrown(done.error))
               /\ UNCHANGED <<tokens, index>>
  IN  /\ Scheduled(c, "render")
      /\ context' = [context EXCEPT ![contextOf(c)] = createContext(userContext[c])]
      /\ tokenized(tokenize(template[c]))
      /\ UNCHANGED <<arguments, frameStack, output, velocityCalls, evalLog, branchesRun>>

\* case 'text' (lines 180-184)
RenderText(c) ==
  /\ Processing(c, "text")
  /\ output' = [output EXCEPT ![c] =
       IF isFrameActive(frameStack[c])
         THEN Append(@, interpolate(Token(c).value, context[contextOf(c)]))
         ELSE @]
  /\ Advance(c)
  /\ UNCHANGED <<arguments, context, tokens, frameStack, velocityCalls, evalLog,
                 branchesRun>>

\* a match that takes any body for an assignment to v
setMatchAny(content) ==
  [ok |-> TRUE, variableName |-> <<"v">>, expression |-> content]

\* token.content.match(/^\s*\$([A-Za-z_][\w]*)\s*=\s*(.+)$/): the name is
\* followed by (\s*)=(\s*)(.+), and the last \s* gives back a character when
\* nothing else is left for (.+)
setMatch(content) ==
  LET groups(name, rest, trimmed) ==
        IF rest # <<>>
          THEN [ok |-> TRUE, variableName |-> name,
                expression |-> IF trimmed # <<>> THEN trimmed ELSE <<rest[Len(rest)]>>]
          ELSE [ok |-> FALSE]
      afterName(name, s1) ==
        IF s1 # <<>> /\ Head(s1) = "="
          THEN groups(name, Tail(s1), TrimStart(Tail(s1)))
          ELSE [ok |-> FALSE]
      named(s0, k) ==
        afterName(SubSeq(s0, 2, k + 1), TrimStart(SubSeq(s0, k + 2, Len(s0))))
      trimmed(s0) ==
        IF Len(s0) >= 2 /\ s0[1] = "$" /\ s0[2] \in IdentStart
          THEN named(s0, PrefixLen(Tail(s0), WordChars))
          ELSE [ok |-> FALSE]
  IN  trimmed(TrimStart(content))

\* an assignment that keeps the value of a name already in the context
AssignOnce(ctx, variableName, value) ==
  [key \in (DOMAIN ctx) \cup {variableName} |->
     IF key \in DOMAIN ctx THEN ctx[key] ELSE value]

\* context[variableName] = value
Assign(ctx, variableName, value) ==
  [key \in (DOMAIN ctx) \cup {variableName} |->
     IF key = variableName THEN value ELSE ctx[key]]

\* Object.prototype.hasOwnProperty.call(BUILT_INS, variableName)
isBuiltIn(variableName) == variableName \in DOMAIN BUILT_INS

\* lines 193-196: what an active, well-formed #set does to the context; the
\* normalised value is stored, or the evaluation error thrown
setDirective(ctx, variableName, expression) ==
  LET stored(value) ==
        IF value.ok
          THEN [ok |-> TRUE, evaluated |-> TRUE,
                context |-> Assign(ctx, variableName, normalizeValue(value.value))]
          ELSE [ok |-> FALSE, evaluated |-> TRUE, error |-> value.error]
  IN  IF ~isBuiltIn(variableName)
        THEN stored(evaluateExpression(expression, ctx))
        ELSE [ok |-> TRUE, evaluated |-> FALSE, context |-> ctx]

\* case 'set' (lines 185-198)
RenderSet(c) ==
  LET assigned(done) ==
        /\ Log(c, LogEntry(c, TRUE, TRUE, FALSE, done.evaluated))
        /\ IF done.ok
             THEN /\ context' = [context EXCEPT ![contextOf(c)] = done.context]
                  /\ Advance(c)
             ELSE /\ Complete(c, Thrown(done.error))
                  /\ UNCHANGED <<context, index>>
      matched(match) ==
        IF ~match.ok
          THEN /\ Complete(c, Thrown("Unable to parse set directive"))
               /\ Log(c, LogEntry(c, TRUE, TRUE, FALSE, FALSE))
               /\ UNCHANGED <<context, index>>
          ELSE assigned(setDirective(context[contextOf(c)], match.variableName,
                                     match.expression))
  IN  /\ Processing(c, "set")
      /\ IF ~isFrameActive(frameStack[c])
           THEN /\ Advance(c)
                /\ Log(c, LogEntry(c, FALSE, FALSE, FALSE, FALSE))
                /\ UNCHANGED context
           ELSE matched(setMatch(Token(c).content))
      /\ UNCHANGED <<arguments, tokens, frameStack, output, velocityCalls, branchesRun>>

\* a condition that was not evaluated
NotCalled == [called |-> FALSE, ok |-> TRUE, met |-> FALSE]
\* Boolean(evaluateExpression(token.content, context))
condition(content, ctx) ==
  LET boolean(value) ==
        IF value.ok
          THEN [called |-> TRUE, ok |-> TRUE, met |-> ToBoolean(value.value)]
          ELSE [called |-> TRUE, ok |-> FALSE, error |-> value.error]
  IN  boolean(evaluateExpression(content, ctx))

\* line 201: the condition of an #if is evaluated only in an active scope
ifCondition(parentActive, content, ctx) ==
  IF parentActive THEN condition(content, ctx) ELSE NotCalled

\* a frame pushed without a look at the scope it lies in
ifFrameOrphan(parentActive, conditionMet) ==
  [parentActive |-> TRUE, active |-> conditionMet, branchSatisfied |-> conditionMet]

\* lines 202-206: the frame an #if pushes
ifFrame(parentActive, conditionMet) ==
  [parentActive |-> parentActive,
   active |-> conditionMet /\ parentActive,
   branchSatisfied |-> conditionMet /\ parentActive]

Top(stack) == stack[Len(stack)]
SetTop(stack, frame) == [stack EXCEPT ![Len(stack)] = frame]
Count(b) == IF b THEN 1 ELSE 0

\* case 'if' (lines 199-208)
RenderIf(c) ==
  LET push(frame) ==
        /\ frameStack' = [frameStack EXCEPT ![c] = Append(@, frame)]
        /\ branchesRun' = [branchesRun EXCEPT ![c] = Append(@, Count(frame.active))]
        /\ Advance(c)
      evaluated(parentActive, cond) ==
        /\ Log(c, LogEntry(c, parentActive, parentActive, FALSE, cond.called))
        /\ IF cond.ok
             THEN push(ifFrame(parentActive, cond.met))
             ELSE /\ Complete(c, Thrown(cond.error))
                  /\ UNCHANGED <<frameStack, branchesRun, index>>
  IN  /\ Processing(c, "if")
      /\ evaluated(isFrameActive(frameStack[c]),
           ifCondition(isFrameActive(frameStack[c]), Token(c).content,
                       context[contextOf(c)]))
      /\ UNCHANGED <<arguments, context, tokens, output, velocityCalls>>

\* an #elseif that evaluates its condition whatever ran before
elseifConditionUnguarded(frame, content, ctx) ==
  IF ~frame.parentActive THEN NotCalled ELSE condition(content, ctx)

\* lines 214-222: the condition of an #elseif is evaluated only when the
\* enclosing scope is active and no earlier branch of the chain ran
elseifCondition(frame, content, ctx) ==
  IF ~frame.parentActive THEN NotCalled
  ELSE IF frame.branchSatisfied THEN NotCalled
  ELSE condition(content, ctx)

\* an #elseif whose frame follows its own condition alone
elseifFrameLast(frame, cond) ==
  [frame EXCEPT !.active = frame.parentActive /\ cond.met, !.branchSatisfied = cond.met]

\* lines 214-224: the top frame after an #elseif
elseifFrame(frame, cond) ==
  IF ~frame.parentActive THEN [frame EXCEPT !.active = FALSE]
  ELSE IF frame.branchSatisfied THEN [frame EXCEPT !.active = FALSE]
  ELSE [frame EXCEPT !.active = cond.met, !.branchSatisfied = cond.met]

\* the top frame is replaced and the for-of loop moves on
RenderBranch(c, next) ==
  /\ frameStack' = [frameStack EXCEPT ![c] = SetTop(@, next)]
  /\ branchesRun' = [branchesRun EXCEPT ![c] =
       [@ EXCEPT ![Len(@)] = @ + Count(next.active)]]
  /\ Advance(c)

\* case 'elseif' (lines 209-226)
RenderElseif(c) ==
  LET evaluated(frame, cond) ==
        /\ Log(c, LogEntry(c, isFrameActive(frameStack[c]), frame.parentActive,
                           frame.branchSatisfied, cond.called))
        /\ IF cond.ok
             THEN RenderBranch(c, elseifFrame(frame, cond))
             ELSE /\ Complete(c, Thrown(cond.error))
                  /\ UNCHANGED <<frameStack, branchesRun, index>>
  IN  /\ Processing(c, "elseif")
      /\ IF Len(frameStack[c]) = 0
           THEN /\ Complete(c, Thrown("#elseif without matching #if"))
                /\ UNCHANGED <<frameStack, branchesRun, index, evalLog>>
           ELSE evaluated(Top(frameStack[c]),
                  elseifCondition(Top(frameStack[c]), Token(c).content,
                                  context[contextOf(c)]))
      /\ UNCHANGED <<arguments, context, tokens, output, velocityCalls>>

\* an #else that forgets the branches already run
elseFrameUnguarded(frame) ==
  [frame EXCEPT !.active = frame.parentActive, !.branchSatisfied = TRUE]

shouldActivate(frame) == frame.parentActive /\ ~frame.branchSatisfied
\* lines 231-234: the top frame after an #else
elseFrame(frame) ==
  [frame EXCEPT !.active = shouldActivate(frame),
                !.branchSatisfied = frame.branchSatisfied \/ shouldActivate(frame)]

\* case 'else' (lines 227-236)
RenderElse(c) ==
  /\ Processing(c, "else")
  /\ IF Len(frameStack[c]) = 0
       THEN /\ Complete(c, Thrown("#else without matching #if"))
            /\ UNCHANGED <<frameStack, branchesRun, index>>
       ELSE RenderBranch(c, elseFrame(Top(frameStack[c])))
  /\ UNCHANGED <<arguments, context, tokens, output, velocityCalls, evalLog>>

\* an #end that empties the stack
PopAll(stack) == <<>>

\* frameStack.pop()
Pop(stack) == SubSeq(stack, 1, Len(stack) - 1)

\* case 'end' (lines 237-243)
RenderEnd(c) ==
  /\ Processing(c, "end")
  /\ IF Len(frameStack[c]) = 0
       THEN /\ Complete(c, Thrown("#end without matching #if"))
            /\ UNCHANGED <<frameStack, branchesRun, index>>
       ELSE /\ frameStack' = [frameStack EXCEPT ![c] = Pop(@)]
            /\ branchesRun' = [branchesRun EXCEPT ![c] = Pop(@)]
            /\ Advance(c)
  /\ UNCHANGED <<arguments, context, tokens, output, velocityCalls, evalLog>>

\* a return that does not look at the frame stack
renderReturnUnchecked(stack, fragments) == Returned(Str(join(fragments)))

\* lines 249-253: after the last token
renderReturn(stack, fragments) ==
  IF Len(stack) > 0
    THEN Thrown("Unclosed #if block detected")
    ELSE Returned(Str(join(fragments)))

RenderReturn(c) ==
  /\ Scheduled(c, "loop")
  /\ index[c] > Len(tokens[c])
  /\ Complete(c, renderReturn(frameStack[c], output[c]))
  /\ UNCHANGED <<arguments, renderLocals, velocityCalls, evalLog, branchesRun>>

Next ==
  \E c \in Calls :
    \/ RenderTemplate(c)
    \/ Render(c)
    \/ RenderText(c)
    \/ RenderSet(c)
    \/ RenderIf(c)
    \/ RenderElseif(c)
    \/ RenderElse(c)
    \/ RenderEnd(c)
    \/ RenderReturn(c)

(***************************************************************************)
(* The inputs.  A template is a concatenation of pieces: whole directives  *)
(* for the interpreter, single characters and bare keywords for the        *)
(* tokenizer, assignments for the evaluator.  An input is one call of      *)
(* renderTemplate, or two calls that differ in the template alone.         *)
(***************************************************************************)
MaxPieces == 4
MaxShort == 3

RECURSIVE Concatenations(_, _)
\* every concatenation of at most n pieces
Concatenations(pieces, n) ==
  IF n = 0 THEN {<<>>}
  ELSE Concatenations(pieces, n - 1)
         \cup {piece \o rest : piece \in pieces, rest \in Concatenations(pieces, n - 1)}

\* the characters of a string literal of this module
If(e) == KwIf \o e \o <<")">>
Elseif(e) == KwElseif \o e \o <<")">>
Set(e) == KwSet \o e \o <<")">>
VEquals == <<"$", "v", " ", "=", " ">>

\* conditional chains; x is an unbound identifier, so evaluating it throws
DirectivePieces ==
  { <<"a">>, If(<<"1">>), If(<<"0">>), If(<<"x">>),
    Elseif(<<"1">>), Elseif(<<"0">>), Elseif(<<"x">>), KwElse, KwEnd }

\* characters and keywords, with and without their parenthesis
TokenizerPieces ==
  { <<"#">>, <<"$">>, <<"$", "a">>, <<"a">>, <<" ">>, <<"(">>, <<")">>,
    <<"#", "i", "f">>, KwIf, KwSet, KwElseif }
TokenizerPrefixes == { <<>>, If(<<"0">>), <<"a">> \o If(<<"1">>) }

\* assignments of every kind of value, and a reference to the variable
SetPieces ==
  { Set(VEquals \o <<"7", " ", "/", " ", "2">>),
    Set(VEquals \o <<"-", "7", " ", "/", " ", "2">>),
    Set(VEquals \o <<"1", " ", "/", " ", "0">>),
    Set(VEquals \o <<"$", "v", " ", "*", " ", "3">>),
    Set(VEquals \o <<"$", "a">>),
    Set(VEquals \o <<"\"", "s", "\"">>),
    Set(VEquals \o <<"1", " ", "<", " ", "2">>),
    Set(VEquals \o <<"$">> \o IntegerName \o <<".">> \o ParseIntName \o <<"(", "\"", "7", "x", "\"", ")">>),
    Set(<<"$">> \o IntegerName \o <<" ", "=", " ", "x">>),
    Set(<<"v">>),
    <<"$", "v">>, If(<<"0">>) }

EmptyContext == <<>>
Omitted == <<>>
\* a caller's context that names the builtin and holds a decimal string
UserContext == [key \in {IntegerName, <<"a">>} |->
                  IF key = IntegerName THEN Num(1) ELSE Str(<<"2", ".", "5">>)]
Prefer(b) == [key \in {"preferVelocity"} |-> Bool(b)]

\* templates[c] is the template of call c; call 2 is made when calls = 2
Input(templates, ctx, opts, engine, calls) ==
  [templates |-> templates, userContext |-> ctx, options |-> opts,
   velocityEngine |-> engine, calls |-> calls]
Single(tpl, ctx, opts, engine) == Input(<<tpl, <<>>>>, ctx, opts, engine, 1)

\* a directive written with a space before its parenthesis, and without
Spaced(keyword, e) ==
  [spaced |-> SubSeq(keyword, 1, Len(keyword) - 1) \o <<" ", "(">> \o e \o <<")">>,
   plain |-> keyword \o e \o <<")">>]
Same(piece) == [spaced |-> piece, plain |-> piece]
SpacedPieces ==
  { Spaced(KwIf, <<"1">>), Spaced(KwIf, <<"0">>), Spaced(KwElseif, <<"1">>),
    Spaced(KwSet, VEquals \o <<"1">>),
    Same(KwElse), Same(KwEnd), Same(<<"a">>), Same(<<"$", "v">>) }

RECURSIVE SpacedConcatenations(_)
SpacedConcatenations(n) ==
  IF n = 0 THEN {Same(<<>>)}
  ELSE SpacedConcatenations(n - 1)
         \cup {[spaced |-> piece.spaced \o rest.spaced, plain |-> piece.plain \o rest.plain] :
                 piece \in SpacedPieces, rest \in SpacedConcatenations(n - 1)}

\* an assignment to a name the caller may have supplied, a reference to it
\* and a chain that tests it
IsolatedPieces ==
  { Set(<<"$", "a", " ", "=", " ", "7", " ", "/", " ", "2">>), <<"$", "a">>,
    If(<<"$", "a", " ", "=", "=", " ", "3">>), KwElse, KwEnd }

\* the template of the documented example (lines 296-314), a line break after
\* every line but the last
PasswordExample ==
  \* #set($Integer = 0)
  <<"#", "s", "e", "t", "(", "$", "I", "n", "t", "e", "g", "e", "r", " ",
    "=", " ", "0", ")", "\n">>
  \o
  \* #set($result = "Idle")
  <<"#", "s", "e", "t", "(", "$", "r", "e", "s", "u", "l", "t", " ", "=",
    " ", "\"", "I", "d", "l", "e", "\"", ")", "\n">>
  \o
  \* #if($pswLastChangedTime == "")
  <<"#", "i", "f", "(", "$", "p", "s", "w", "L", "a", "s", "t", "C", "h",
    "a", "n", "g", "e", "d", "T", "i", "m", "e", " ", "=", "=", " ", "\"",
    "\"", ")", "\n">>
  \o
  \* $result
  <<"$", "r", "e", "s", "u", "l", "t", "\n">>
  \o
  \* #else
  <<"#", "e", "l", "s", "e", "\n">>
  \o
  \* #set($nowYear = $Integer.parseInt($nowTime) / 10000)
  <<"#", "s", "e", "t", "(", "$", "n", "o", "w", "Y", "e", "a", "r", " ",
    "=", " ", "$", "I", "n", "t", "e", "g", "e", "r", ".", "p", "a", "r",
    "s", "e", "I", "n", "t", "(", "$", "n", "o", "w", "T", "i", "m", "e",
    ")", " ", "/", " ", "1", "0", "0", "0", "0", ")", "\n">>
  \o
  \* #set($nowMonth = ($Integer.parseInt($nowTime) % 10000) / 100)
  <<"#", "s", "e", "t", "(", "$", "n", "o", "w", "M", "o", "n", "t", "h",
    " ", "=", " ", "(", "$", "I", "n", "t", "e", "g", "e", "r", ".", "p",
    "a", "r", "s", "e", "I", "n", "t", "(", "$", "n", "o", "w", "T", "i",
    "m", "e", ")", " ", "%", " ", "1", "0", "0", "0", "0", ")", " ", "/",
    " ", "1", "0", "0", ")", "\n">>
  \o
  \* #set($nowDay = $Integer.parseInt($nowTime) % 100)
  <<"#", "s", "e", "t", "(", "$", "n", "o", "w", "D", "a", "y", " ", "=",
    " ", "$", "I", "n", "t", "e", "g", "e", "r", ".", "p", "a", "r", "s",
    "e", "I", "n", "t", "(", "$", "n", "o", "w", "T", "i", "m", "e", ")",
    " ", "%", " ", "1", "0", "0", ")", "\n">>
  \o
  \* #set($pswYear = $Integer.parseInt($pswLastChangedTime) / 10000)
  <<"#", "s", "e", "t", "(", "$", "p", "s", "w", "Y", "e", "a", "r", " ",
    "=", " ", "$", "I", "n", "t", "e", "g", "e", "r", ".", "p", "a", "r",
    "s", "e", "I", "n", "t", "(", "$", "p", "s", "w", "L", "a", "s", "t",
    "C", "h", "a", "n", "g", "e", "d", "T", "i", "m", "e", ")", " ", "/",
    " ", "1", "0", "0", "0", "0", ")", "\n">>
  \o
  \* #set($pswMonth = ($Integer.parseInt($pswLastChangedTime) % 10000) / 100)
  <<"#", "s", "e", "t", "(", "$", "p", "s", "w", "M", "o", "n", "t", "h",
    " ", "=", " ", "(", "$", "I", "n", "t", "e", "g", "e", "r", ".", "p",
    "a", "r", "s", "e", "I", "n", "t", "(", "$", "p", "s", "w", "L", "a",
    "s", "t", "C", "h", "a", "n", "g", "e", "d", "T", "i", "m", "e", ")",
    " ", "%", " ", "1", "0", "0", "0", "0", ")", " ", "/", " ", "1", "0",
    "0", ")", "\n">>
  \o
  \* #set($pswDay = $Integer.parseInt($pswLastChangedTime) % 100)
  <<"#", "s", "e", "t", "(", "$", "p", "s", "w", "D", "a", "y", " ", "=",
    " ", "$", "I", "n", "t", "e", "g", "e", "r", ".", "p", "a", "r", "s",
    "e", "I", "n", "t", "(", "$", "p", "s", "w", "L", "a", "s", "t", "C",
    "h", "a", "n", "g", "e", "d", "T", "i", "m", "e", ")", " ", "%", " ",
    "1", "0", "0", ")", "\n">>
  \o
  \* #set($nowDays = ($nowYear * 365) + ($nowMonth * 30) + $nowDay)
  <<"#", "s", "e", "t", "(", "$", "n", "o", "w", "D", "a", "y", "s", " ",
    "=", " ", "(", "$", "n", "o", "w", "Y", "e", "a", "r", " ", "*", " ",
    "3", "6", "5", ")", " ", "+", " ", "(", "$", "n", "o", "w", "M", "o",
    "n", "t", "h", " ", "*", " ", "3", "0", ")", " ", "+", " ", "$", "n",
    "o", "w", "D", "a", "y", ")", "\n">>
  \o
  \* #set($pswDays = ($pswYear * 365) + ($pswMonth * 30) + $pswDay)
  <<"#", "s", "e", "t", "(", "$", "p", "s", "w", "D", "a", "y", "s", " ",
    "=", " ", "(", "$", "p", "s", "w", "Y", "e", "a", "r", " ", "*", " ",
    "3", "6", "5", ")", " ", "+", " ", "(", "$", "p", "s", "w", "M", "o",
    "n", "t", "h", " ", "*", " ", "3", "0", ")", " ", "+", " ", "$", "p",
    "s", "w", "D", "a", "y", ")", "\n">>
  \o
  \* #set($diffInDays = ($nowDays - $pswDays))
  <<"#", "s", "e", "t", "(", "$", "d", "i", "f", "f", "I", "n", "D", "a",
    "y", "s", " ", "=", " ", "(", "$", "n", "o", "w", "D", "a", "y", "s",
    " ", "-", " ", "$", "p", "s", "w", "D", "a", "y", "s", ")", ")", "\n">>
  \o
  \* #if($diffInDays >= 1 && $diffInDays <= 11)
  <<"#", "i", "f", "(", "$", "d", "i", "f", "f", "I", "n", "D", "a", "y",
    "s", " ", ">", "=", " ", "1", " ", "&", "&", " ", "$", "d", "i", "f",
    "f", "I", "n", "D", "a", "y", "s", " ", "<", "=", " ", "1", "1", ")",
    "\n">>
  \o
  \* #set($result = $diffInDays)
  <<"#", "s", "e", "t", "(", "$", "r", "e", "s", "u", "l", "t", " ", "=",
    " ", "$", "d", "i", "f", "f", "I", "n", "D", "a", "y", "s", ")", "\n">>
  \o
  \* #end
  <<"#", "e", "n", "d", "\n">>
  \o
  \* #end
  <<"#", "e", "n", "d", "\n">>
  \o
  \* $result
  <<"$", "r", "e", "s", "u", "l", "t">>

\* dates as six-digit strings: 8, 11, 12 and 15 days apart, a change of year,
\* leading zeros
PasswordDates ==
  { <<"2", "5", "1", "2", "2", "9">>,
    <<"2", "5", "1", "2", "2", "1">>,
    <<"2", "5", "1", "2", "1", "8">>,
    <<"2", "5", "1", "2", "1", "7">>,
    <<"2", "6", "0", "1", "0", "1">>,
    <<"0", "0", "0", "1", "0", "1">> }

\* the caller's context of the example: the two dates, as strings
Dated(now, psw) ==
  [key \in {<<"n", "o", "w", "T", "i", "m", "e">>,
            <<"p", "s", "w", "L", "a", "s", "t", "C", "h", "a", "n", "g", "e", "d", "T", "i", "m", "e">>} |->
     IF key[1] = "n" THEN Str(now) ELSE Str(psw)]

\* the inputs of a family: conditional chains, tokenizer texts, assignments
\* and backend choices for one call; for "spaced", call 1 renders the spaced
\* template and call 2 the same template without the spaces
Inputs(family) ==
  CASE family = "directive" ->
         {Single(tpl, EmptyContext, Omitted, Null) :
            tpl \in Concatenations(DirectivePieces, MaxPieces)}
    [] family = "tokenizer" ->
         {Single(prefix \o body, ctx, Omitted, Null) :
            prefix \in TokenizerPrefixes,
            body \in Concatenations(TokenizerPieces, MaxShort),
            ctx \in {EmptyContext, UserContext}}
    [] family = "set" ->
         {Single(tpl, ctx, Omitted, Null) :
            tpl \in Concatenations(SetPieces, MaxShort),
            ctx \in {EmptyContext, UserContext}}
    [] family = "velocity" ->
         {Single(tpl, EmptyContext, opts, engine) :
            tpl \in {<<"a">>, KwEnd, <<>>},
            opts \in {Omitted, Prefer(TRUE), Prefer(FALSE)},
            engine \in {Null, VelocityModule}}
    [] family = "spaced" ->
         {Input(<<pair.spaced, pair.plain>>, EmptyContext, Omitted, Null, 2) :
            pair \in SpacedConcatenations(MaxShort)}
    [] family = "isolated" ->
         {Input(<<tpl, other>>, ctx, Omitted, Null, 2) :
            tpl \in Concatenations(IsolatedPieces, MaxShort),
            other \in { Set(<<"$", "a", " ", "=", " ", "\"", "s", "\"">>) \o <<"$", "a">>,
                        <<"$", "a">> \o If(<<"$", "a", " ", "=", "=", " ", "3">>) \o <<"b">>
                          \o Elseif(<<"1">>) \o <<"c">> \o KwEnd },
            ctx \in {EmptyContext, UserContext}}
    [] family = "password" ->
         {Single(PasswordExample, Dated(now, psw), Omitted, Null) :
            now \in PasswordDates, psw \in PasswordDates \cup {<<>>}}

\* the calls that are made are about to run; nothing has been rendered
Init ==
  \E family \in {"directive", "tokenizer", "set", "velocity", "spaced", "isolated",
                 "password"} :
  \E in \in Inputs(family) :
    /\ velocityEngine = in.velocityEngine
    /\ reentrant = (family = "isolated")
    /\ template = [c \in Calls |-> in.templates[c]]
    /\ userContext = [c \in Calls |-> in.userContext]
    /\ options = [c \in Calls |-> in.options]
    /\ pc = [c \in Calls |-> IF c <= in.calls THEN "start" ELSE "idle"]
    /\ context = [c \in Calls |-> EmptyContext]
    /\ tokens = [c \in Calls |-> <<>>]
    /\ index = [c \in Calls |-> 0]
    /\ frameStack = [c \in Calls |-> <<>>]
    /\ output = [c \in Calls |-> <<>>]
    /\ renderResult = [c \in Calls |-> NoResult]
    /\ result = [c \in Calls |-> NoResult]
    /\ velocityCalls = [c \in Calls |-> <<>>]
    /\ evalLog = [c \in Calls |-> <<>>]
    /\ branchesRun = [c \in Calls |-> <<>>]

Spec == Init /\ [][Next]_vars

\* no reachable state holds a value or an error outside the modelled fragment
Modelled ==
  \A c \in Calls :
    /\ \A key \in DOMAIN context[c] : context[c][key] # Unmodelled
    /\ \A k \in 1..Len(output[c]) : UnmodelledString \notin {output[c][k]}
    /\ result[c] # Thrown("Unmodelled")
    /\ result[c].status = "returned" =>
         \A k \in 1..Len(result[c].value.s) : result[c].value.s[k] # UnmodelledString[1]

\* the step is one of call c: every action moves the call on, or to the next
\* token
Steps(c) == pc'[c] # pc[c] \/ index'[c] # index[c]

(***************************************************************************)
(* Conditional chains.                                                     *)
(***************************************************************************)
\* an #elseif or #else is processed in a chain one of whose branches ran
BranchAfterSatisfied(c) ==
  /\ Processing(c, "elseif") \/ Processing(c, "else")
  /\ Len(frameStack[c]) > 0
  /\ Top(frameStack[c]).branchSatisfied

\* every open chain has run at most one branch, and has run one exactly when
\* its frame says a branch is satisfied; an active frame is a satisfied one
AtMostOneBranch ==
  \A c \in Calls :
    /\ Len(branchesRun[c]) = Len(frameStack[c])
    /\ \A k \in 1..Len(frameStack[c]) :
         /\ branchesRun[c][k] <= 1
         /\ frameStack[c][k].branchSatisfied <=> branchesRun[c][k] = 1
         /\ frameStack[c][k].active => frameStack[c][k].branchSatisfied

\* C1: conditional exclusivity.  Within one #if/#elseif/#else chain at most
\* one branch is ever active, and once the top frame's branchSatisfied is
\* true no later #elseif or #else of the chain makes the frame active,
\* repeated #else tokens and an #elseif after an #else included.
C1_Exclusive ==
  /\ []AtMostOneBranch
  /\ [][\A c \in Calls :
          (BranchAfterSatisfied(c) /\ Steps(c)) =>
            /\ Len(frameStack'[c]) = Len(frameStack[c])
            /\ ~Top(frameStack'[c]).active
            /\ Top(frameStack'[c]).branchSatisfied]_vars

\* a true #elseif that follows an #else has just been skipped in an active scope
C1_Witness ==
  \E c \in Calls :
    /\ pc[c] = "loop"
    /\ index[c] >= 4
    /\ tokens[c][index[c] - 1] = [type |-> "elseif", content |-> <<"1">>]
    /\ tokens[c][index[c] - 2].type = "else"
    /\ Len(frameStack[c]) > 0
    /\ Top(frameStack[c]).parentActive
    /\ Top(frameStack[c]).branchSatisfied
    /\ ~Top(frameStack[c]).active

(***************************************************************************)
(* Which conditions reach the evaluator.                                   *)
(***************************************************************************)
EvaluationErrors ==
  {"SyntaxError", "ReferenceError", "TypeError", "Unable to parse integer from value"}

\* C2: short-circuit safety.  The condition of an #if is evaluated exactly
\* when the enclosing scope is active, the condition of an #elseif exactly
\* when its frame's parentActive is true and branchSatisfied is false; a
\* condition that is not evaluated cannot fail the render.
C2_ShortCircuit ==
  \A c \in Calls :
    /\ \A k \in 1..Len(evalLog[c]) :
         /\ evalLog[c][k].type = "if" =>
              (evalLog[c][k].evaluated <=> evalLog[c][k].active)
         /\ evalLog[c][k].type = "elseif" =>
              (evalLog[c][k].evaluated <=>
                 evalLog[c][k].parentActive /\ ~evalLog[c][k].branchSatisfied)
    /\ (renderResult[c].status = "thrown" /\ renderResult[c].error \in EvaluationErrors) =>
         /\ evalLog[c] # <<>>
         /\ evalLog[c][Len(evalLog[c])].evaluated
         /\ evalLog[c][Len(evalLog[c])].index = index[c]

\* a render has returned although it met an #elseif whose condition would
\* throw: the chain was in an active scope and had already run a branch
C2_Witness ==
  \E c \in Calls :
    /\ renderResult[c].status = "returned"
    /\ \E k \in 1..Len(evalLog[c]) :
         /\ evalLog[c][k].type = "elseif"
         /\ tokens[c][evalLog[c][k].index].content = <<"x">>
         /\ evalLog[c][k].parentActive
         /\ evalLog[c][k].branchSatisfied
         /\ ~evalLog[c][k].evaluated

(***************************************************************************)
(* The builtin namespace.                                                  *)
(***************************************************************************)
\* render has built its context (line 171)
ContextBuilt(c) == pc[c] = "loop" \/ renderResult[c] # NoResult

\* an active, well-formed #set whose target is the builtin name is next
SetsBuiltIn(c) ==
  /\ Processing(c, "set")
  /\ isFrameActive(frameStack[c])
  /\ setMatch(Token(c).content).ok
  /\ setMatch(Token(c).content).variableName = IntegerName

\* C3: builtin protection.  In every state of a render the context entry
\* Integer is the builtin helper, whose parseInt is callable, whatever the
\* caller supplied under that name; a #set whose target is Integer changes
\* nothing in the context and raises no error.
C3_BuiltinProtected ==
  /\ [](\A c \in Calls :
          ContextBuilt(c) =>
            /\ IntegerName \in DOMAIN context[c]
            /\ context[c][IntegerName] = IntegerHelper
            /\ getMember(context[c][IntegerName], ParseIntName) = Ok(ParseIntFunction))
  /\ [][\A c \in Calls :
          (SetsBuiltIn(c) /\ Steps(c)) =>
            /\ context'[c] = context[c]
            /\ renderResult'[c] = NoResult
            /\ pc'[c] = "loop"]_vars

\* the caller supplied an entry named Integer, the template has assigned to
\* Integer, and the render has returned
C3_Witness ==
  \E c \in Calls :
    /\ IntegerName \in DOMAIN userContext[c]
    /\ userContext[c][IntegerName] # IntegerHelper
    /\ renderResult[c].status = "returned"
    /\ \E k \in 1..Len(tokens[c]) :
         /\ tokens[c][k].type = "set"
         /\ setMatch(tokens[c][k].content).ok
         /\ setMatch(tokens[c][k].content).variableName = IntegerName
         /\ \E j \in 1..Len(evalLog[c]) :
              evalLog[c][j].index = k /\ evalLog[c][j].active

(***************************************************************************)
(* What a #set stores.                                                     *)
(***************************************************************************)
\* an active, well-formed #set of a variable that is no builtin is next
SetsVariable(c) ==
  /\ Processing(c, "set")
  /\ isFrameActive(frameStack[c])
  /\ setMatch(Token(c).content).ok
  /\ ~isBuiltIn(setMatch(Token(c).content).variableName)

SetTarget(c) == setMatch(Token(c).content).variableName
\* the completion of the expression of the #set that is next
SetResult(c) == evaluateExpression(setMatch(Token(c).content).expression, context[c])

IsInteger(v) == v.t = "num" /\ v.d \in {1, -1}
\* the integer next to n/d on the side of zero
TowardZero(v) ==
  IF (v.n < 0) = (v.d < 0) THEN Num(Abs(v.n) \div Abs(v.d))
  ELSE IF Abs(v.n) < Abs(v.d) THEN NegZero
  ELSE Num(-(Abs(v.n) \div Abs(v.d)))

\* what the law says is stored for the result v
StoredFor(v) == IF v.t = "num" /\ ~IsInteger(v) THEN TowardZero(v) ELSE v

\* the law for the results that are finite numbers, strings or booleans
C4_FiniteLaw ==
  [][\A c \in Calls :
       (/\ SetsVariable(c) /\ Steps(c)
        /\ SetResult(c).ok /\ SetResult(c).value.t \in {"num", "str", "bool"}) =>
         /\ SetTarget(c) \in DOMAIN context'[c]
         /\ context'[c][SetTarget(c)] = StoredFor(SetResult(c).value)]_vars

\* C4: truncation law.  Whenever an active #set stores the result of an
\* expression, a non-integer numeric result is stored truncated toward zero,
\* an integer, string or boolean result is stored unchanged, and so every
\* numeric value a #set puts in the context is an integer.
C4_TruncationLaw ==
  [][\A c \in Calls :
       (SetsVariable(c) /\ Steps(c) /\ SetResult(c).ok) =>
         /\ SetTarget(c) \in DOMAIN context'[c]
         /\ context'[c][SetTarget(c)] = StoredFor(SetResult(c).value)
         /\ IsNumber(context'[c][SetTarget(c)]) => IsInteger(context'[c][SetTarget(c)])]_vars

\* a #set of 1 / 0 has stored a number that is no integer
C4_Witness ==
  \E c \in Calls :
    /\ pc[c] = "loop"
    /\ index[c] >= 2
    /\ tokens[c][index[c] - 1] =
         [type |-> "set", content |-> VEquals \o <<"1", " ", "/", " ", "0">>]
    /\ <<"v">> \in DOMAIN context[c]
    /\ context[c][<<"v">>] = Inf(1)

(***************************************************************************)
(* The shape of the token sequence.                                        *)
(***************************************************************************)
\* the number of tokens of a type among the first k
CountOf(toks, type, k) == Cardinality({j \in 1..k : toks[j].type = type})
\* the number of #if blocks open after the first k tokens
DepthAfter(toks, k) == CountOf(toks, "if", k) - CountOf(toks, "end", k)
WellFormed(toks) ==
  /\ \A k \in 1..Len(toks) :
       /\ DepthAfter(toks, k) >= 0
       /\ toks[k].type \in {"elseif", "else"} => DepthAfter(toks, k - 1) > 0
  /\ DepthAfter(toks, Len(toks)) = 0

OtherErrors ==
  EvaluationErrors \cup {"Unterminated directive", "Unable to parse set directive"}
Unmatched(type) ==
  CASE type = "end" -> "#end without matching #if"
    [] type = "elseif" -> "#elseif without matching #if"
    [] type = "else" -> "#else without matching #if"

\* C5: structural errors.  render fails when an #end, #elseif or #else is
\* processed with an empty frame stack, and when the stack is not empty after
\* the last token; when no tokenize, set-syntax or evaluation error occurs,
\* render returns a string exactly when no prefix of the tokens has more #end
\* than #if, no #elseif or #else is at depth 0, and every #if is closed.
C5_Structural ==
  /\ [][\A c \in Calls :
          /\ (\E type \in {"end", "elseif", "else"} :
                Processing(c, type) /\ Steps(c) /\ frameStack[c] = <<>>) =>
               renderResult'[c] = Thrown(Unmatched(Token(c).type))
          /\ (/\ Scheduled(c, "loop") /\ Steps(c)
              /\ index[c] > Len(tokens[c]) /\ frameStack[c] # <<>>) =>
               renderResult'[c] = Thrown("Unclosed #if block detected")]_vars
  /\ [](\A c \in Calls :
          (/\ renderResult[c] # NoResult
           /\ renderResult[c].status = "thrown" => renderResult[c].error \notin OtherErrors) =>
            /\ renderResult[c].status = "returned" <=> WellFormed(tokens[c])
            /\ renderResult[c].status = "returned" => renderResult[c].value.t = "str")

\* a render has failed on a block left open inside a closed one
C5_Witness ==
  \E c \in Calls :
    /\ renderResult[c] = Thrown("Unclosed #if block detected")
    /\ CountOf(tokens[c], "if", Len(tokens[c])) = 2
    /\ CountOf(tokens[c], "end", Len(tokens[c])) = 1

(***************************************************************************)
(* The alternate backend.                                                  *)
(***************************************************************************)
\* C6: a failure of the alternate backend is downgraded.  When renderTemplate
\* is called with preferVelocity true and the external renderer throws,
\* renderTemplate returns what the built-in render returns.
C6_FailureDowngraded ==
  \A c \in Calls :
    (/\ pc[c] = "done"
     /\ preferVelocity(options[c]) = Bool(TRUE)
     /\ velocityCalls[c] # <<>>
     /\ velocityCalls[c][1].status = "thrown") =>
      /\ renderResult[c] # NoResult
      /\ result[c] = renderResult[c]

\* the failure of the external renderer is the completion of renderTemplate,
\* and render has not run
C6_Witness ==
  \E c \in Calls :
    /\ pc[c] = "done"
    /\ velocityCalls[c] = <<Thrown("velocity failure")>>
    /\ result[c] = Thrown("velocity failure")
    /\ renderResult[c] = NoResult

(***************************************************************************)
(* White space before the parenthesis of a directive.                      *)
(***************************************************************************)
ParenKeywords == {KwSet, KwIf, KwElseif}
Stem(keyword) == SubSeq(keyword, 1, Len(keyword) - 1)
\* a keyword, then n >= 1 spaces, then ( are at position i of t
SpacedAt(t, i, keyword, n) ==
  /\ startsWith(t, Stem(keyword), i)
  /\ n >= 1
  /\ i + Len(keyword) - 1 + n < Len(t)
  /\ \A k \in 1..n : at(t, i + Len(keyword) - 2 + k) = " "
  /\ at(t, i + Len(keyword) - 1 + n) = "("

RECURSIVE WithoutSpaces(_, _)
\* t from position i on, without the spaces between a keyword and its (
WithoutSpaces(t, i) ==
  IF i >= Len(t) THEN <<>>
  ELSE IF \E keyword \in ParenKeywords, n \in 1..Len(t) : SpacedAt(t, i, keyword, n)
    THEN LET found == CHOOSE pair \in ParenKeywords \X (1..Len(t)) :
                        SpacedAt(t, i, pair[1], pair[2])
         IN  Stem(found[1]) \o WithoutSpaces(t, i + Len(found[1]) - 1 + found[2])
    ELSE <<at(t, i)>> \o WithoutSpaces(t, i + 1)

\* C7: white space between #set, #if or #elseif and its ( is tolerated.  A
\* template written with such spaces tokenizes to the same tokens and renders
\* the same result as the template without them.
C7_SpacesTolerated ==
  \A c \in Calls, d \in Calls :
    (/\ pc[c] = "done" /\ pc[d] = "done"
     /\ template[d] = WithoutSpaces(template[c], 0)
     /\ userContext[d] = userContext[c]
     /\ options[d] = options[c]) =>
      /\ tokens[c] = tokens[d]
      /\ result[c] = result[d]

\* a template with a spaced #if has failed where the template without the
\* space has returned
C7_Witness ==
  /\ pc[1] = "done" /\ pc[2] = "done"
  /\ template[2] = WithoutSpaces(template[1], 0)
  /\ template[2] # template[1]
  /\ result[2].status = "returned"
  /\ result[1].status = "thrown"

\* the external renderer was called, and this is what it did
Called(c) == velocityCalls[c] # <<>>
Outcome(c) == velocityCalls[c][1]
\* the completion of renderTemplate is the completion of render, which ran
FromRender(c) == renderResult[c] # NoResult /\ result[c] = renderResult[c]

\* C8: selection of the alternate backend.  renderTemplate calls the external
\* renderer only when options.preferVelocity is true; a non-null string it
\* returns is returned as it is and render is not run; when the renderer is
\* absent or returns null or undefined, and when preferVelocity is false or
\* omitted, the outcome is that of render(template, context).
C8_BackendSelection ==
  \A c \in Calls :
    /\ Len(velocityCalls[c]) <= 1
    /\ Called(c) => preferVelocity(options[c]) = Bool(TRUE) /\ velocityEngine # Null
    /\ pc[c] = "done" =>
         /\ (Called(c) /\ Outcome(c).status = "returned" /\ Outcome(c).value.t = "str") =>
              result[c] = Outcome(c) /\ renderResult[c] = NoResult
         /\ (preferVelocity(options[c]) = Bool(TRUE) /\ velocityEngine = Null) =>
              ~Called(c) /\ FromRender(c)
         /\ (Called(c) /\ Outcome(c) \in {Returned(Null), Returned(Undefined)}) =>
              FromRender(c)
         /\ preferVelocity(options[c]) \in {Bool(FALSE), Undefined} =>
              ~Called(c) /\ FromRender(c)

\* the external renderer has returned the empty string, which renderTemplate
\* has returned without running render on a template that render rejects
C8_Witness ==
  \E c \in Calls :
    /\ pc[c] = "done"
    /\ template[c] = KwEnd
    /\ Called(c)
    /\ Outcome(c) = Returned(Str(<<>>))
    /\ result[c] = Returned(Str(<<>>))
    /\ renderResult[c] = NoResult

(***************************************************************************)
(* Templates without directives.                                           *)
(***************************************************************************)
Keywords == {KwSet, KwIf, KwElseif, KwElse, KwEnd}
\* no # of t is followed by set(, if(, elseif(, else or end
DirectiveFree(t) ==
  \A i \in 0..(Len(t) - 1) : \A keyword \in Keywords : ~startsWith(t, keyword, i)

\* the references $identifier of t: the position of the $ and the last
\* position of the name, each name as long as it can be
References(t) ==
  {r \in (1..Len(t)) \X (1..Len(t)) :
     /\ t[r[1]] = "$"
     /\ r[2] > r[1]
     /\ t[r[1] + 1] \in IdentStart
     /\ \A k \in (r[1] + 1)..r[2] : t[k] \in WordChars
     /\ r[2] = Len(t) \/ t[r[2] + 1] \notin WordChars}

\* the string form of a context value in a text; nothing for a missing one
Shown(ctx, name) ==
  IF name \notin DOMAIN ctx \/ ctx[name] \in {Undefined, Null} THEN <<>>
  ELSE String(ctx[name])

RECURSIVE Substituted(_, _, _)
\* t from position i (1-based) on, each reference replaced by its value
Substituted(t, ctx, i) ==
  IF i > Len(t) THEN <<>>
  ELSE IF \E r \in References(t) : r[1] = i
    THEN LET r == CHOOSE r \in References(t) : r[1] = i
         IN  Shown(ctx, SubSeq(t, i + 1, r[2])) \o Substituted(t, ctx, r[2] + 1)
    ELSE <<t[i]>> \o Substituted(t, ctx, i + 1)

\* C9: text-only identity.  For a template with no directive, lone #
\* characters included, render returns the template with each $identifier
\* replaced by the string form of its context value and every other
\* character, each lone # included, kept in order.
C9_TextOnly ==
  \A c \in Calls :
    (renderResult[c] # NoResult /\ DirectiveFree(template[c])) =>
      /\ renderResult[c] =
           Returned(Str(Substituted(template[c], createContext(userContext[c]), 1)))
      /\ References(template[c]) = {} => renderResult[c] = Returned(Str(template[c]))

\* a template of a bare keyword, a reference to a variable the caller set and
\* a lone # has been rendered
C9_Witness ==
  \E c \in Calls :
    /\ renderResult[c].status = "returned"
    /\ template[c] = <<"#", "i", "f", "$", "a", "#">>
    /\ <<"a">> \in DOMAIN userContext[c]
    /\ renderResult[c].value.s = <<"#", "i", "f", "2", ".", "5", "#">>

(***************************************************************************)
(* Unterminated directives.                                                *)
(***************************************************************************)
\* the opening parentheses minus the closing ones in t[from..to] (0-based)
Balance(t, from, to) ==
  Cardinality({k \in from..to : at(t, k) = "("})
    - Cardinality({k \in from..to : at(t, k) = ")"})

\* a #set(, #if( or #elseif( of t has no matching )
Unterminated(t) ==
  \E i \in 0..(Len(t) - 1) : \E keyword \in ParenKeywords :
    /\ startsWith(t, keyword, i)
    /\ \A j \in (i + Len(keyword) - 1)..(Len(t) - 1) :
         Balance(t, i + Len(keyword) - 1, j) # 0

\* C10: an unterminated #set(, #if( or #elseif( anywhere in the template makes
\* render fail at tokenize time, before any token is interpreted: no
\* expression is evaluated, no #set is executed and no output fragment is
\* produced, even when the directive lies in a branch that would be inactive.
C10_FailsAtTokenize ==
  \A c \in Calls :
    /\ Unterminated(template[c]) =>
         /\ pc[c] # "loop"
         /\ renderResult[c] \in {NoResult, Thrown("Unterminated directive")}
         /\ tokens[c] = <<>> /\ index[c] = 0
         /\ evalLog[c] = <<>>
         /\ output[c] = <<>>
         /\ frameStack[c] = <<>>
         /\ context[c] \in {EmptyContext, createContext(userContext[c])}
    /\ renderResult[c] = Thrown("Unterminated directive") => Unterminated(template[c])

\* render has failed on an unterminated #set( that follows a text and lies in
\* a branch that would be inactive
C10_Witness ==
  \E c \in Calls :
    /\ renderResult[c] = Thrown("Unterminated directive")
    /\ \E body \in {KwSet \o <<"$", "a">>, KwSet \o <<"(", ")">>} :
         template[c] = If(<<"0">>) \o <<"a">> \o body
    /\ output[c] = <<>>
    /\ evalLog[c] = <<>>

(***************************************************************************)
(* Calls in progress at the same time.                                     *)
(***************************************************************************)
\* the active flag of the top frame; an empty stack is active
TopActive(stack) == stack = <<>> \/ Top(stack).active

RECURSIVE AloneFrom(_, _, _, _, _, _)
\* a render that runs alone, from token k on: its completion, and the context
\* and output fragments it ends with.  It takes the scope for active as
\* render does or, when `cached`, from the top frame alone.
AloneFrom(cached, toks, k, ctx, stack, out) ==
  LET active == IF cached THEN TopActive(stack) ELSE isFrameActive(stack)
      ended(completion) == [result |-> completion, context |-> ctx, output |-> out]
      assigned(done) ==
        IF done.ok THEN AloneFrom(cached, toks, k + 1, done.context, stack, out)
        ELSE ended(Thrown(done.error))
      matched(match) ==
        IF match.ok THEN assigned(setDirective(ctx, match.variableName, match.expression))
        ELSE ended(Thrown("Unable to parse set directive"))
      opened(parentActive, cond) ==
        IF cond.ok
          THEN AloneFrom(cached, toks, k + 1, ctx, Append(stack, ifFrame(parentActive, cond.met)), out)
          ELSE ended(Thrown(cond.error))
      continued(cond) ==
        IF cond.ok
          THEN AloneFrom(cached, toks, k + 1, ctx, SetTop(stack, elseifFrame(Top(stack), cond)), out)
          ELSE ended(Thrown(cond.error))
  IN  IF k > Len(toks) THEN ended(renderReturn(stack, out))
      ELSE CASE toks[k].type = "text" ->
                  AloneFrom(cached, toks, k + 1, ctx, stack,
                            IF active
                              THEN Append(out, interpolate(toks[k].value, ctx))
                              ELSE out)
             [] toks[k].type = "set" ->
                  IF active THEN matched(setMatch(toks[k].content))
                  ELSE AloneFrom(cached, toks, k + 1, ctx, stack, out)
             [] toks[k].type = "if" ->
                  opened(active, ifCondition(active, toks[k].content, ctx))
             [] toks[k].type = "elseif" ->
                  IF stack = <<>> THEN ended(Thrown("#elseif without matching #if"))
                  ELSE continued(elseifCondition(Top(stack), toks[k].content, ctx))
             [] toks[k].type = "else" ->
                  IF stack = <<>> THEN ended(Thrown("#else without matching #if"))
                  ELSE AloneFrom(cached, toks, k + 1, ctx, SetTop(stack, elseFrame(Top(stack))), out)
             [] toks[k].type = "end" ->
                  IF stack = <<>> THEN ended(Thrown("#end without matching #if"))
                  ELSE AloneFrom(cached, toks, k + 1, ctx, Pop(stack), out)

\* render(tpl, userCtx) when no other call is in progress
AloneWith(cached, tpl, userCtx) ==
  LET tokenized(done) ==
        IF done.ok
          THEN AloneFrom(cached, done.tokens, 1, createContext(userCtx), <<>>, <<>>)
          ELSE [result |-> Thrown(done.error), context |-> createContext(userCtx),
                output |-> <<>>]
  IN  tokenized(tokenize(tpl))
Alone(tpl, userCtx) == AloneWith(FALSE, tpl, userCtx)

\* C11: render isolation.  Each render call builds its own fresh context and
\* output buffer, render never changes the mapping the caller supplied, a
\* value a #set stores in one call is not visible to another call, and
\* however two calls are interleaved each ends as it does when it runs alone
\* on its template and context.
C11_Isolation ==
  /\ [](\A c \in Calls :
          renderResult[c] # NoResult =>
            /\ renderResult[c] = Alone(template[c], userContext[c]).result
            /\ context[c] = Alone(template[c], userContext[c]).context
            /\ output[c] = Alone(template[c], userContext[c]).output)
  /\ [][/\ userContext' = userContext
        /\ \A c \in Calls :
             /\ (pc[c] = "render" /\ pc'[c] = "loop") =>
                  context'[c] = createContext(userContext[c]) /\ output'[c] = <<>>
             /\ ~Steps(c) =>
                  /\ context'[c] = context[c]
                  /\ output'[c] = output[c]
                  /\ frameStack'[c] = frameStack[c]
                  /\ tokens'[c] = tokens[c]]_vars

\* two calls given the same mapping are both in their token loops, one has
\* stored a number under a name of the mapping and the other a string
C11_Witness ==
  /\ reentrant
  /\ pc[1] = "loop" /\ pc[2] = "loop"
  /\ index[1] > 1 /\ index[2] > 1
  /\ userContext[1] = UserContext /\ userContext[2] = UserContext
  /\ context[1][<<"a">>] = Num(3)
  /\ context[2][<<"a">>] = Str(<<"s">>)

(***************************************************************************)
(* The documented example.                                                 *)
(***************************************************************************)
Year(n) == n \div 10000
Month(n) == (n % 10000) \div 100
Day(n) == n % 100
Days(n) == Year(n) * 365 + Month(n) * 30 + Day(n)

\* what the example is to store under each of its names, for the two dates
PasswordAge(now, psw) ==
  [key \in {<<"n", "o", "w", "Y", "e", "a", "r">>,
            <<"n", "o", "w", "M", "o", "n", "t", "h">>,
            <<"n", "o", "w", "D", "a", "y">>,
            <<"p", "s", "w", "Y", "e", "a", "r">>,
            <<"p", "s", "w", "M", "o", "n", "t", "h">>,
            <<"p", "s", "w", "D", "a", "y">>,
            <<"n", "o", "w", "D", "a", "y", "s">>,
            <<"p", "s", "w", "D", "a", "y", "s">>,
            <<"d", "i", "f", "f", "I", "n", "D", "a", "y", "s">>} |->
     CASE key = <<"n", "o", "w", "Y", "e", "a", "r">> -> Year(now)
       [] key = <<"n", "o", "w", "M", "o", "n", "t", "h">> -> Month(now)
       [] key = <<"n", "o", "w", "D", "a", "y">> -> Day(now)
       [] key = <<"p", "s", "w", "Y", "e", "a", "r">> -> Year(psw)
       [] key = <<"p", "s", "w", "M", "o", "n", "t", "h">> -> Month(psw)
       [] key = <<"p", "s", "w", "D", "a", "y">> -> Day(psw)
       [] key = <<"n", "o", "w", "D", "a", "y", "s">> -> Days(now)
       [] key = <<"p", "s", "w", "D", "a", "y", "s">> -> Days(psw)
       [] key = <<"d", "i", "f", "f", "I", "n", "D", "a", "y", "s">> -> Days(now) - Days(psw)]

LineSpace == {" ", "\n"}
RECURSIVE TrimmedOutput(_)
\* s without the spaces and line breaks at its ends
TrimmedOutput(s) ==
  IF s # <<>> /\ Head(s) \in LineSpace THEN TrimmedOutput(Tail(s))
  ELSE IF s # <<>> /\ s[Len(s)] \in LineSpace THEN TrimmedOutput(SubSeq(s, 1, Len(s) - 1))
  ELSE s

\* the example as it goes for call c, whose dates are now and psw
ExampleGoes(c, now, psw) ==
  /\ \A key \in DOMAIN PasswordAge(now, psw) :
       /\ key \in DOMAIN context[c] => context[c][key] = Num(PasswordAge(now, psw)[key])
       /\ renderResult[c] # NoResult => key \in DOMAIN context[c]
  /\ renderResult[c] # NoResult =>
       /\ renderResult[c].status = "returned"
       /\ (Days(now) - Days(psw)) \in 1..11 =>
            TrimmedOutput(renderResult[c].value.s) = NatToString(Days(now) - Days(psw))
       /\ (now = 251229 /\ psw = 251221) =>
            TrimmedOutput(renderResult[c].value.s) = <<"8">>

\* C12: the password-age example.  For the documented template and two
\* six-digit date strings every intermediate #set stores an integer (the year
\* is value / 10000 truncated, the month (value % 10000) / 100 truncated, the
\* day value % 100), the output is the difference of the two day counts
\* whenever that difference is between 1 and 11, and for nowTime "251229" and
\* pswLastChangedTime "251221" the trimmed output is "8".
C12_PasswordAge ==
  \A c \in Calls : \A now \in PasswordDates, psw \in PasswordDates :
    (template[c] = PasswordExample /\ userContext[c] = Dated(now, psw)) =>
      ExampleGoes(c, DigitsToNat(now), DigitsToNat(psw))

\* the example has rendered 8 for the documented dates
C12_Witness ==
  \E c \in Calls :
    /\ template[c] = PasswordExample
    /\ userContext[c] = Dated(<<"2", "5", "1", "2", "2", "9">>, <<"2", "5", "1", "2", "2", "1">>)
    /\ renderResult[c].status = "returned"
    /\ TrimmedOutput(renderResult[c].value.s) = <<"8">>
    /\ context[c][<<"n", "o", "w", "M", "o", "n", "t", "h">>] = Num(12)

(***************************************************************************)
(* Which branch of a chain runs.                                           *)
(***************************************************************************)
\* the #if that opened the block open at `depth` after the first n tokens
ChainStart(toks, n, depth) ==
  CHOOSE j \in 1..n :
    /\ toks[j].type = "if" /\ DepthAfter(toks, j) = depth
    /\ \A k \in (j + 1)..n :
         ~(toks[k].type = "if" /\ DepthAfter(toks, k) = depth)

\* the #if, #elseif and #else tokens of that block among the first n tokens
Branches(toks, n, depth) ==
  {j \in ChainStart(toks, n, depth)..n :
     toks[j].type \in {"if", "elseif", "else"} /\ DepthAfter(toks, j) = depth}

Last(positions) == CHOOSE j \in positions : \A k \in positions : k <= j

\* the chain is #if, then #elseif tokens, then at most one #else, and no
\* condition refers to the context
PlainChain(toks, branches) ==
  \A j \in branches :
    /\ toks[j].type = "else" => j = Last(branches)
    /\ toks[j].type # "else" => \A k \in 1..Len(toks[j].content) : toks[j].content[k] # "$"

\* the completion of a condition is a truthy value
Truthy(completion) == completion.ok /\ ToBoolean(completion.value)

\* branch j is the first whose condition is truthy; the #else is, when none is
Wins(toks, j, branches) ==
  /\ toks[j].type # "else" => Truthy(evaluateExpression(toks[j].content, EmptyContext))
  /\ \A k \in branches :
       (k < j) => ~Truthy(evaluateExpression(toks[k].content, EmptyContext))

\* C13: the first true branch wins.  In a well-formed chain #if c0 ...
\* #elseif c1 ... #else ... #end whose enclosing scope is active, the active
\* branch is the one with the smallest i such that ci is truthy, the #else
\* branch is active exactly when no ci is truthy, and when the enclosing
\* scope is inactive no branch of the chain is active.
C13_FirstTrueWins ==
  \A c \in Calls :
    pc[c] = "loop" =>
      \A depth \in 1..Len(frameStack[c]) :
        PlainChain(tokens[c], Branches(tokens[c], index[c] - 1, depth)) =>
          (frameStack[c][depth].active <=>
             /\ \A below \in 1..(depth - 1) : frameStack[c][below].active
             /\ Wins(tokens[c], Last(Branches(tokens[c], index[c] - 1, depth)),
                     Branches(tokens[c], index[c] - 1, depth)))

\* the second of two true #elseif conditions has just been passed over, after
\* a false #if
C13_Witness ==
  \E c \in Calls :
    /\ pc[c] = "loop"
    /\ index[c] = 4
    /\ tokens[c][1] = [type |-> "if", content |-> <<"0">>]
    /\ tokens[c][2] = [type |-> "elseif", content |-> <<"1">>]
    /\ tokens[c][3] = [type |-> "elseif", content |-> <<"1">>]
    /\ Len(frameStack[c]) = 1
    /\ ~frameStack[c][1].active

(***************************************************************************)
(* The active scope and the top frame.                                     *)
(***************************************************************************)
\* render(tpl, userCtx) by an interpreter that consults the top frame alone
Cached(tpl, userCtx) == AloneWith(TRUE, tpl, userCtx)

\* C14: cached-active equivalence.  In every reachable state each frame's
\* parentActive is the conjunction of the active flags of the frames below
\* it and a frame's active flag implies its parentActive, so the conjunction
\* over the whole stack equals the top frame's active flag (true for an empty
\* stack), and an interpreter that consults only the top frame produces the
\* same output and context.
C14_CachedActive ==
  \A c \in Calls :
    /\ \A depth \in 1..Len(frameStack[c]) :
         /\ frameStack[c][depth].parentActive =
              (\A below \in 1..(depth - 1) : frameStack[c][below].active)
         /\ frameStack[c][depth].active => frameStack[c][depth].parentActive
    /\ (\A depth \in 1..Len(frameStack[c]) : frameStack[c][depth].active)
         = TopActive(frameStack[c])
    /\ renderResult[c] # NoResult =>
         /\ renderResult[c] = Cached(template[c], userContext[c]).result
         /\ context[c] = Cached(template[c], userContext[c]).context
         /\ output[c] = Cached(template[c], userContext[c]).output

\* an #else has just been passed in a block that lies in a false branch: the
\* top frame is inactive, as is the one below it
C14_Witness ==
  \E c \in Calls :
    /\ pc[c] = "loop"
    /\ index[c] = 4
    /\ tokens[c][1] = [type |-> "if", content |-> <<"0">>]
    /\ tokens[c][2].type = "if"
    /\ tokens[c][3].type = "else"
    /\ Len(frameStack[c]) = 2
    /\ ~frameStack[c][1].active
    /\ ~frameStack[c][2].parentActive
    /\ ~frameStack[c][2].active

(***************************************************************************)
(* The depth of the frame stack.                                           *)
(***************************************************************************)
\* call c processes a token of this type, and render goes on
Passes(c, type) == Processing(c, type) /\ Steps(c) /\ renderResult'[c] = NoResult

\* C15: the depth of the frame stack.  After any prefix of the tokens has
\* been processed without error the depth of the stack is the number of #if
\* tokens minus the number of #end tokens of the prefix, and is not negative;
\* an #if pushes exactly one frame and an #end pops exactly one, whether the
\* enclosing scope is active or not, and a text, #set, #elseif or #else
\* leaves the depth as it is.
C15_Depth ==
  /\ [](\A c \in Calls :
          pc[c] = "loop" =>
            /\ Len(frameStack[c]) = DepthAfter(tokens[c], index[c] - 1)
            /\ \A k \in 0..(index[c] - 1) : DepthAfter(tokens[c], k) >= 0)
  /\ [][\A c \in Calls :
          /\ Passes(c, "if") =>
               /\ Len(frameStack'[c]) = Len(frameStack[c]) + 1
               /\ SubSeq(frameStack'[c], 1, Len(frameStack[c])) = frameStack[c]
          /\ Passes(c, "end") =>
               /\ frameStack[c] # <<>>
               /\ frameStack'[c] = SubSeq(frameStack[c], 1, Len(frameStack[c]) - 1)
          /\ (\E type \in {"text", "set", "elseif", "else"} : Passes(c, type)) =>
               Len(frameStack'[c]) = Len(frameStack[c])]_vars

\* a block opened and closed inside a false branch: the stack is back at
\* depth 1 after going to depth 2
C15_Witness ==
  \E c \in Calls :
    /\ pc[c] = "loop"
    /\ index[c] = 4
    /\ tokens[c][1] = [type |-> "if", content |-> <<"0">>]
    /\ tokens[c][2].type = "if"
    /\ tokens[c][3].type = "end"
    /\ Len(frameStack[c]) = 1
    /\ ~isFrameActive(frameStack[c])

(***************************************************************************)
(* What a token may change.                                                *)
(***************************************************************************)
\* every frame of call c is active
ScopeActive(c) == \A depth \in 1..Len(frameStack[c]) : frameStack[c][depth].active

\* C16: the effects of tokens.  The output buffer changes only when a text
\* token is processed while active, and then by the append of one fragment;
\* the context changes only when a #set whose target is no builtin is
\* processed while active; a text or #set processed while inactive, and every
\* #if, #elseif, #else and #end, leave output and context as they are.
C16_FrameEffects ==
  [][\A c \in Calls :
       pc[c] = "loop" =>
         /\ output'[c] # output[c] =>
              /\ Processing(c, "text") /\ Steps(c) /\ ScopeActive(c)
              /\ Len(output'[c]) = Len(output[c]) + 1
              /\ SubSeq(output'[c], 1, Len(output[c])) = output[c]
         /\ (Processing(c, "text") /\ Steps(c) /\ ScopeActive(c)) =>
              Len(output'[c]) = Len(output[c]) + 1
         /\ context'[c] # context[c] =>
              /\ Processing(c, "set") /\ Steps(c) /\ ScopeActive(c)
              /\ setMatch(Token(c).content).ok
              /\ setMatch(Token(c).content).variableName \notin DOMAIN BUILT_INS
              /\ DOMAIN context'[c] =
                   DOMAIN context[c] \cup {setMatch(Token(c).content).variableName}
              /\ \A key \in DOMAIN context[c] :
                   key # setMatch(Token(c).content).variableName =>
                     context'[c][key] = context[c][key]
         /\ (/\ Steps(c)
             /\ \/ ~ScopeActive(c) /\ (Processing(c, "text") \/ Processing(c, "set"))
                \/ \E type \in {"if", "elseif", "else", "end"} : Processing(c, type)) =>
              output'[c] = output[c] /\ context'[c] = context[c]]_vars

\* an assignment and a reference in a false branch have both been passed:
\* nothing is stored and nothing is written
C16_Witness ==
  \E c \in Calls :
    /\ pc[c] = "loop"
    /\ index[c] = 4
    /\ tokens[c][1] = [type |-> "if", content |-> <<"0">>]
    /\ tokens[c][2] = [type |-> "set", content |-> VEquals \o <<"7", " ", "/", " ", "2">>]
    /\ tokens[c][3] = [type |-> "text", value |-> <<"$", "v">>]
    /\ output[c] = <<>>
    /\ <<"v">> \notin DOMAIN context[c]

(***************************************************************************)
(* A #set that is not an assignment.                                       *)
(***************************************************************************)
\* the body is spaces, $identifier, spaces, =, and at least one character
Shaped(content) ==
  \E dollar \in 1..Len(content), last \in 1..Len(content), equals \in 1..Len(content) :
    /\ dollar < last /\ last < equals /\ equals < Len(content)
    /\ \A k \in 1..(dollar - 1) : content[k] = " "
    /\ content[dollar] = "$"
    /\ content[dollar + 1] \in IdentStart
    /\ \A k \in (dollar + 1)..last : content[k] \in WordChars
    /\ \A k \in (last + 1)..(equals - 1) : content[k] = " "
    /\ content[equals] = "="

ParseError == Thrown("Unable to parse set directive")

\* C17: a #set whose body is not of the shape $identifier = expression fails
\* the render with a parse error if and only if it is processed while active;
\* in an inactive branch it is skipped and the render goes on.  The failed
\* render returns no output, whatever fragments were appended before.
C17_MalformedSet ==
  /\ [][\A c \in Calls :
          /\ (Processing(c, "set") /\ Steps(c) /\ ~Shaped(Token(c).content)) =>
               IF ScopeActive(c)
                 THEN renderResult'[c] = ParseError /\ pc'[c] = "done"
                 ELSE /\ renderResult'[c] = NoResult
                      /\ pc'[c] = "loop" /\ index'[c] = index[c] + 1
                      /\ context'[c] = context[c] /\ output'[c] = output[c]
          /\ (renderResult[c] = NoResult /\ renderResult'[c] = ParseError) =>
               /\ Processing(c, "set") /\ ScopeActive(c)
               /\ ~Shaped(Token(c).content)]_vars
  /\ [](\A c \in Calls : renderResult[c] = ParseError => result[c] = ParseError)

\* a render has failed on a #set without an assignment after it had appended
\* a fragment
C17_Witness ==
  \E c \in Calls :
    /\ renderResult[c] = ParseError
    /\ result[c] = ParseError
    /\ output[c] # <<>>
    /\ tokens[c][index[c]].type = "set"
    /\ ~Shaped(tokens[c][index[c]].content)

(***************************************************************************)
(* Directive bodies and source spans.                                      *)
(***************************************************************************)
\* the characters of the template a token was made from
SourceOf(token) ==
  CASE token.type = "text" -> token.value
    [] token.type = "set" -> KwSet \o token.content \o <<")">>
    [] token.type = "if" -> KwIf \o token.content \o <<")">>
    [] token.type = "elseif" -> KwElseif \o token.content \o <<")">>
    [] token.type = "else" -> KwElse
    [] token.type = "end" -> KwEnd

RECURSIVE SourceUpTo(_, _)
\* the source spans of the first k tokens, one after the other
SourceUpTo(toks, k) ==
  IF k = 0 THEN <<>> ELSE SourceUpTo(toks, k - 1) \o SourceOf(toks[k])

\* inside the body the nesting depth never returns to zero, and the ) after
\* the body returns it to zero
BalancedBody(content) ==
  /\ Balance(content, 0, Len(content) - 1) = 0
  /\ \A j \in 0..(Len(content) - 1) : Balance(content, 0, j) >= 0

\* the template of call c has been tokenized
Tokenized(c) == pc[c] = "loop" \/ (pc[c] = "done" /\ tokens[c] # <<>>)

\* C18: balanced-parenthesis directive bodies.  The body of a #set(, #if( or
\* #elseif( token is exactly the characters between the opening ( and the )
\* that returns the nesting depth to zero, inner parentheses kept; scanning
\* resumes right after that ), so the source spans of the tokens in order
\* make up the template; a text token holds no directive.
C18_BalancedBodies ==
  \A c \in Calls :
    Tokenized(c) =>
      /\ SourceUpTo(tokens[c], Len(tokens[c])) = template[c]
      /\ \A k \in 1..Len(tokens[c]) :
           LET token == tokens[c][k]
               offset == Len(SourceUpTo(tokens[c], k - 1))
           IN  /\ token.type \in {"set", "if", "elseif"} =>
                    /\ BalancedBody(token.content)
                    /\ at(template[c], offset + Len(SourceOf(token)) - 1) = ")"
               /\ token.type = "text" =>
                    /\ token.value # <<>>
                    /\ token.value = <<"#">> \/ \A j \in 1..Len(token.value) : token.value[j] # "#"
                    /\ token.value = <<"#">> =>
                         \A keyword \in Keywords : ~startsWith(template[c], keyword, offset)

\* a #set( whose body holds a call in parentheses has been tokenized with the
\* call inside the body, and the token after it starts right after its )
C18_Witness ==
  \E c \in Calls :
    /\ Tokenized(c)
    /\ Len(tokens[c]) >= 2
    /\ tokens[c][1].type = "set"
    /\ \E j \in 1..Len(tokens[c][1].content) : tokens[c][1].content[j] = "("
    /\ tokens[c][1].content[Len(tokens[c][1].content)] = ")"
    /\ tokens[c][2] = [type |-> "text", value |-> <<"$", "v">>]

(***************************************************************************)
(* Interpolation reads what the assignments wrote.                         *)
(***************************************************************************)
\* no #set of call c has stored a value so far
NoStore(c) ==
  \A i \in 1..Len(evalLog[c]) :
    ~(evalLog[c][i].type = "set" /\ evalLog[c][i].evaluated)

\* the step stores the value of the expression under the name of the match,
\* normalised, and keeps every other entry; a built-in name is not written
Written(c, match) ==
  IF isBuiltIn(match.variableName) THEN context'[c] = context[c]
  ELSE /\ DOMAIN context'[c] = DOMAIN context[c] \cup {match.variableName}
       /\ context'[c][match.variableName] =
            normalizeValue(evaluateExpression(match.expression, context[c]).value)
       /\ \A name \in DOMAIN context[c] \ {match.variableName} :
            context'[c][name] = context[c][name]

\* C19: read-after-write interpolation.  An active text token appends its
\* text with each $identifier replaced by the string form of the value the
\* context holds at that moment, nothing for an absent, undefined or null
\* one, and an inactive one appends nothing; neither changes the context.
\* The context holds, for each name, the value stored by the most recent
\* active #set of that name, and what was built from the caller's mapping
\* (built-in names resolve to the helper) while no #set has stored: only an
\* active #set step changes it, and it changes only its own name.
C19_ReadAfterWrite ==
  /\ [](\A c \in Calls :
         (pc[c] = "loop" /\ NoStore(c)) => context[c] = createContext(userContext[c]))
  /\ [][\A c \in Calls :
         (Steps(c) /\ pc[c] = "loop" /\ index[c] <= Len(tokens[c])) =>
           LET token == Token(c)
               active == isFrameActive(frameStack[c])
           IN  /\ token.type = "text" =>
                    /\ context' = context
                    /\ output'[c] =
                         IF active
                           THEN Append(output[c], Substituted(token.value, context[c], 1))
                           ELSE output[c]
               /\ (token.type = "set" /\ active /\ pc'[c] = "loop") =>
                    Written(c, setMatch(token.content))
               /\ ~(token.type = "set" /\ active) => context'[c] = context[c]]_vars

\* a reference rendered the caller's value before an assignment to its name
\* and the assigned value after it
C19_Witness ==
  \E c \in Calls :
    /\ userContext[c] = UserContext
    /\ template[c] = <<"$", "a">> \o Set(<<"$", "a", " ", "=", " ", "7", " ", "/", " ", "2">>)
                       \o <<"$", "a">>
    /\ output[c] = << <<"2", ".", "5">>, <<"3">> >>
    /\ context[c][<<"a">>] = Num(3)

(***************************************************************************)
(* Termination.                                                            *)
(***************************************************************************)
\* Call c, made and not completed, moves on: its position in renderTemplate
\* changes, or its token.  Every step of a call is one (each action ends in
\* Advance or Complete, or leaves "start" or "render"), and one is possible
\* whenever the call is scheduled.
Runs(c) ==
  /\ pc[c] \in {"start", "render", "loop"}
  /\ Scheduled(c, pc[c])
  /\ \E position \in {"render", "loop", "done"} : pc' = [pc EXCEPT ![c] = position]
  /\ \E i \in {index[c], index[c] + 1, 1} : index' = [index EXCEPT ![c] = i]
  /\ pc'[c] # pc[c] \/ index'[c] # index[c]

\* renderTemplate is synchronous: the host runs a call that has been made
\* statement after statement until it returns or throws, so a call that can
\* move on does
FairSpec == Spec /\ \A c \in Calls : WF_<<pc, index>>(Runs(c))

\* some local of call c, or its completion, changes
Moves(c) ==
  <<pc[c], index[c], tokens[c], context[c], frameStack[c], output[c], evalLog[c],
    branchesRun[c], renderResult[c], result[c]>>'
    # <<pc[c], index[c], tokens[c], context[c], frameStack[c], output[c], evalLog[c],
        branchesRun[c], renderResult[c], result[c]>>

\* one iteration of the tokenizer loop at the cursor ends the loop with an
\* error or moves the cursor on by at least one character, within the template
Progresses(tpl, cursor) ==
  LET moved(step) == step.ok => (step.cursor > cursor /\ step.cursor <= Len(tpl))
  IN  moved(tokenizeStep(tpl, cursor, <<>>))

\* C20: termination.  Each iteration of the tokenizer loop ends the loop or
\* strictly advances the cursor, so a template yields at most as many tokens
\* as it has characters; each step of the interpreter loop moves from a token
\* to the next one or ends the render with an error, in order and without
\* changing the tokens, and past the last token render completes; so a call
\* of render eventually returns a string or fails, and so does a call of
\* renderTemplate.
C20_Terminates ==
  /\ [](\A c \in Calls :
         /\ pc[c] = "render" =>
              \A cursor \in 0..(Len(template[c]) - 1) : Progresses(template[c], cursor)
         /\ Tokenized(c) => Len(tokens[c]) <= Len(template[c])
         /\ pc[c] = "loop" => index[c] \in 1..(Len(tokens[c]) + 1))
  /\ [][\A c \in Calls :
         (Moves(c) /\ pc[c] = "loop") =>
           /\ tokens'[c] = tokens[c]
           /\ \/ pc'[c] = "loop" /\ index[c] <= Len(tokens[c])
                   /\ index'[c] = index[c] + 1
              \/ pc'[c] = "done" /\ index'[c] = index[c]
                   /\ renderResult'[c].status = "thrown"
              \/ pc'[c] = "done" /\ index[c] = Len(tokens[c]) + 1
                   /\ index'[c] = index[c]
                   /\ renderResult'[c].status \in {"returned", "thrown"}]_vars
  /\ \A c \in Calls :
       /\ (pc[c] = "render") ~>
            (pc[c] = "done" /\ \/ renderResult[c].status = "thrown"
                               \/ /\ renderResult[c].status = "returned"
                                  /\ renderResult[c].value.t = "str")
       /\ (pc[c] = "start") ~>
            (pc[c] = "done" /\ result[c].status \in {"returned", "thrown"})

\* a render of six tokens, some of them in a branch not taken, has gone
\* through all of them and returned while another call was running
C20_Witness ==
  \E c \in Calls :
    /\ reentrant
    /\ pc[c] = "done"
    /\ Len(tokens[c]) = 6
    /\ index[c] = 7
    /\ \E k \in 1..6 : tokens[c][k].type = "elseif"
    /\ renderResult[c].status = "returned"
    /\ \E d \in Calls \ {c} : pc[d] = "loop"
====
